---- MODULE Spec2Model ----
(***************************************************************************)
(* Wallet / transaction orchestration layer of the Dezentra front end:     *)
(* the Web3Provider context (wallet session, balance refresh, buyTrade).   *)
(*                                                                         *)
(* Every await of the code is a suspension point: an operation is one      *)
(* action per stretch of code between two awaits, and the outcome of the   *)
(* awaited external call (chain read, simulate, write, receipt wait) is    *)
(* chosen by the environment when the operation resumes.                   *)
(*                                                                         *)
(* A React callback reads the props and state of the render that created   *)
(* it.  A callback invoked from the current render reads the current       *)
(* values; a callback kept across renders (the setTimeout closure created  *)
(* inside buyTrade) keeps reading the values captured when buyTrade was    *)
(* called.  Those captured values are the "snap" of a call.                *)
(***************************************************************************)
EXTENDS Integers, Sequences, FiniteSets, Bags, TLC

VARIABLES
    address,        \* useAccount().address, NoAddress when disconnected
    chain,          \* useAccount().chain?.id, NoChain when absent
    env,            \* import.meta.env: the chains with a configured contract
    wallet,         \* the `wallet` snapshot state (setWallet effect)
    isRefreshing,   \* the isRefreshing state
    inFlight,       \* sets of balance/allowance reads started and not yet settled
    timers,         \* pending setTimeout(refreshBalances) closures, by captured values
    bt,             \* the buyTrade invocation: position, locals and result
    sp,             \* the sendPayment invocation: position, locals and result
    sc,             \* the useSmartContract invocation: operation, position and result
    props,          \* useCurrencyConverter's arguments at its latest render
    rc,             \* useCurrencyConverter's state: rates, loading, error, fetches in flight
    storage,        \* localStorage: the persisted rate entry under each rates key
    now,            \* Date.now(), in minutes
    connection,     \* useConnect(): isPending and error of the connect mutation
    switchRequest,  \* a wallet_switchEthereumChain request the wallet has not answered
    queries,        \* the query cache behind useBalance / useReadContract, by query key
    snackbar,       \* the message last shown by showSnackbar
    cv,             \* the latest convertPrice call: its arguments and what it returned
    mounted,        \* whether the component that renders useCurrencyConverter is mounted
    calls,          \* buyTrade invocations that may overlap: position and locals of each
    submitted,      \* the purchase writes handed to writeContractAsync, in order
    ap,             \* the approveUSDT invocation: position, locals and result
    allowance       \* allowance(address, escrow) of the token: on chain and in the query cache

walletVars == <<address, chain, env, wallet, isRefreshing, inFlight, timers, bt, sp, sc>>
rateVars == <<props, rc, storage, now>>
sessionVars == <<connection, switchRequest, queries, snackbar>>
opVars == <<cv, mounted, calls, submitted, ap, allowance>>
vars == <<address, chain, env, wallet, isRefreshing, inFlight, timers, bt, sp, sc,
          props, rc, storage, now, connection, switchRequest, queries, snackbar, cv,
          mounted, calls, submitted, ap, allowance>>

(***************************************************************************)
(* Bounds of the model.                                                    *)
(***************************************************************************)
MaxQuantity == 2    \* quantities requested are 1 and MaxQuantity
MaxTimers == 1      \* delayed refreshes pending at once
MaxInFlight == 2    \* sets of balance reads in flight at once

(***************************************************************************)
(* Configuration (utils/config/web3.config).                               *)
(***************************************************************************)
NoAddress == "undefined"
NoChain == "undefined"
Addresses == {"0xA11CE"}
AVALANCHE_FUJI == "43113"
BASE_SEPOLIA == "84532"
SUPPORTED_CHAINS == {AVALANCHE_FUJI, BASE_SEPOLIA}
TARGET_CHAIN == AVALANCHE_FUJI

\* GAS_LIMITS.BUY_TRADE
BUY_TRADE == 800000

\* The builds considered: every contract address set, or the target chain's
\* escrow or token address missing from the environment.
Envs ==
    { [escrow |-> SUPPORTED_CHAINS, usdt |-> SUPPORTED_CHAINS],
      [escrow |-> {BASE_SEPOLIA}, usdt |-> SUPPORTED_CHAINS],
      [escrow |-> SUPPORTED_CHAINS, usdt |-> {BASE_SEPOLIA}] }

ESCROW_ADDRESSES(c) == IF c \in env.escrow THEN <<"escrow", c>> ELSE <<>>
USDT_ADDRESSES(c) == IF c \in env.usdt THEN <<"usdt", c>> ELSE <<>>

(***************************************************************************)
(* Strings.  A failure message is kept as its text; Chars gives the text   *)
(* as characters so that String.prototype.includes is computed, not        *)
(* assumed.                                                                *)
(***************************************************************************)
Chars(s) ==
    CASE s = "InsufficientFeeTokenAmount" ->
           <<"I","n","s","u","f","f","i","c","i","e","n","t","F","e","e","T","o","k","e","n","A","m","o","u","n","t">>
      [] s = "SourceChainNotAllowlisted" ->
           <<"S","o","u","r","c","e","C","h","a","i","n","N","o","t","A","l","l","o","w","l","i","s","t","e","d">>
      [] s = "InsufficientTokenBalance" ->
           <<"I","n","s","u","f","f","i","c","i","e","n","t","T","o","k","e","n","B","a","l","a","n","c","e">>
      [] s = "InsufficientTokenAllowance" ->
           <<"I","n","s","u","f","f","i","c","i","e","n","t","T","o","k","e","n","A","l","l","o","w","a","n","c","e">>
      [] s = "InvalidTradeId" ->
           <<"I","n","v","a","l","i","d","T","r","a","d","e","I","d">>
      [] s = "TradeNotFound" ->
           <<"T","r","a","d","e","N","o","t","F","o","u","n","d">>
      [] s = "InsufficientQuantity" ->
           <<"I","n","s","u","f","f","i","c","i","e","n","t","Q","u","a","n","t","i","t","y">>
      [] s = "InvalidLogisticsProvider" ->
           <<"I","n","v","a","l","i","d","L","o","g","i","s","t","i","c","s","P","r","o","v","i","d","e","r">>
      [] s = "BuyerIsSeller" ->
           <<"B","u","y","e","r","I","s","S","e","l","l","e","r">>
      [] s = "User rejected" ->
           <<"U","s","e","r"," ","r","e","j","e","c","t","e","d">>
      [] s = "gas" ->
           <<"g","a","s">>
      [] s = "Invalid logistics provider address" ->
           <<"I","n","v","a","l","i","d"," ","l","o","g","i","s","t","i","c","s"," ","p","r","o","v","i","d","e","r"," ","a","d","d","r","e","s","s">>
      [] s = "Invalid destination contract address" ->
           <<"I","n","v","a","l","i","d"," ","d","e","s","t","i","n","a","t","i","o","n"," ","c","o","n","t","r","a","c","t"," ","a","d","d","r","e","s","s">>
      [] s = "Trade not found" ->
           <<"T","r","a","d","e"," ","n","o","t"," ","f","o","u","n","d">>
      [] s = "Failed to fetch trade details" ->
           <<"F","a","i","l","e","d"," ","t","o"," ","f","e","t","c","h"," ","t","r","a","d","e"," ","d","e","t","a","i","l","s">>
      [] s = "Transaction failed to execute" ->
           <<"T","r","a","n","s","a","c","t","i","o","n"," ","f","a","i","l","e","d"," ","t","o"," ","e","x","e","c","u","t","e">>
      [] s = "Cannot convert abc to a BigInt" ->
           <<"C","a","n","n","o","t"," ","c","o","n","v","e","r","t"," ","a","b","c"," ","t","o"," ","a"," ","B","i","g","I","n","t">>
      [] s = "Timed out while waiting for transaction with hash \"0xh1\" to be confirmed." ->
           <<"T","i","m","e","d"," ","o","u","t"," ","w","h","i","l","e"," ","w","a","i","t","i","n","g"," ","f","o","r"," ","t","r","a","n","s","a","c","t","i","o","n"," ","w","i","t","h"," ","h","a","s","h"," ","\"","0","x","h","1","\""," ","t","o"," ","b","e"," ","c","o","n","f","i","r","m","e","d",".">>
      [] s = "HTTP request failed." ->
           <<"H","T","T","P"," ","r","e","q","u","e","s","t"," ","f","a","i","l","e","d",".">>
      [] s = "User rejected the request." ->
           <<"U","s","e","r"," ","r","e","j","e","c","t","e","d"," ","t","h","e"," ","r","e","q","u","e","s","t",".">>
      [] s = "intrinsic gas too low" ->
           <<"i","n","t","r","i","n","s","i","c"," ","g","a","s"," ","t","o","o"," ","l","o","w">>
      [] s = "execution reverted" ->
           <<"e","x","e","c","u","t","i","o","n"," ","r","e","v","e","r","t","e","d">>
      [] s = "unknown reason" ->
           <<"u","n","k","n","o","w","n"," ","r","e","a","s","o","n">>
      [] s = "InvalidPurchaseId" ->
           <<"I","n","v","a","l","i","d","P","u","r","c","h","a","s","e","I","d">>
      [] s = "InvalidPurchaseState" ->
           <<"I","n","v","a","l","i","d","P","u","r","c","h","a","s","e","S","t","a","t","e">>
      [] s = "NotAuthorized" ->
           <<"N","o","t","A","u","t","h","o","r","i","z","e","d">>
      [] s = "PurchaseNotFound" ->
           <<"P","u","r","c","h","a","s","e","N","o","t","F","o","u","n","d">>
      [] s = "insufficient funds" ->
           <<"i","n","s","u","f","f","i","c","i","e","n","t"," ","f","u","n","d","s">>
      [] s = "InsufficientUSDTBalance" ->
           <<"I","n","s","u","f","f","i","c","i","e","n","t","U","S","D","T","B","a","l","a","n","c","e">>
      [] s = "InsufficientUSDTAllowance" ->
           <<"I","n","s","u","f","f","i","c","i","e","n","t","U","S","D","T","A","l","l","o","w","a","n","c","e">>
      [] s = "Wallet not connected" ->
           <<"W","a","l","l","e","t"," ","n","o","t"," ","c","o","n","n","e","c","t","e","d">>
      [] s = "Escrow contract not available on this network" ->
           <<"E","s","c","r","o","w"," ","c","o","n","t","r","a","c","t"," ","n","o","t"," ","a","v","a","i","l","a","b","l","e"," ","o","n"," ","t","h","i","s"," ","n","e","t","w","o","r","k">>
      [] s = "Error: BuyerIsSeller() gas: 800000" ->
           <<"E","r","r","o","r",":"," ","B","u","y","e","r","I","s","S","e","l","l","e","r","(",")"," ","g","a","s",":"," ","8","0","0","0","0","0">>


\* haystack.includes(needle)
Includes(haystack, needle) ==
    LET h == Chars(haystack)
        n == Chars(needle)
    IN \E i \in 1..(Len(h) - Len(n) + 1) : SubSeq(h, i, i + Len(n) - 1) = n

\* A decimal string denoting val, or a string that denotes no integer.
NumStr(v) == [num |-> TRUE, val |-> v]
NotANumber == [num |-> FALSE, val |-> 0]

\* An address string, by what the validation reads of it: its first two
\* characters and its length; an absent value is not defined.
AddrStr(h, n) == [defined |-> TRUE, head |-> h, length |-> n]
UndefinedAddr == [defined |-> FALSE, head |-> "", length |-> 0]

ADDRESS_LENGTH == 42

\* ValidAddress without its length test.
ValidAddressPrefixOnly(a) == a.defined /\ a.head = "0x"

\* The negation of: !a?.startsWith("0x") || a.length !== 42
ValidAddress(a) == a.defined /\ a.head = "0x" /\ a.length = ADDRESS_LENGTH

(***************************************************************************)
(* Error classification of buyTrade's catch block (ordered, first match).  *)
(***************************************************************************)
PurchaseFailed(isLocalPurchase) ==
    IF isLocalPurchase THEN "Purchase failed. Please try again."
    ELSE "Cross-chain purchase failed. Please try again."

\* The table with its last entry tested first.
ClassifyGasFirst(errorMessage, isLocalPurchase) ==
    IF Includes(errorMessage, "gas")
        THEN "Transaction failed due to gas issues. Please try again"
    ELSE IF Includes(errorMessage, "InsufficientFeeTokenAmount")
        THEN "Insufficient funds for cross-chain fees"
    ELSE IF Includes(errorMessage, "SourceChainNotAllowlisted")
        THEN "Cross-chain purchases not supported from this network"
    ELSE IF Includes(errorMessage, "InsufficientTokenBalance")
        THEN "Insufficient USDT balance for this purchase"
    ELSE IF Includes(errorMessage, "InsufficientTokenAllowance")
        THEN "USDT allowance insufficient. Please approve the amount first"
    ELSE IF Includes(errorMessage, "InvalidTradeId") \/ Includes(errorMessage, "TradeNotFound")
        THEN "Invalid trade ID. This product may no longer be available"
    ELSE IF Includes(errorMessage, "InsufficientQuantity")
        THEN "Requested quantity exceeds available stock"
    ELSE IF Includes(errorMessage, "InvalidLogisticsProvider")
        THEN "Invalid logistics provider selected"
    ELSE IF Includes(errorMessage, "BuyerIsSeller")
        THEN "Cannot purchase your own product"
    ELSE IF Includes(errorMessage, "User rejected")
        THEN "Transaction was rejected by user"
    ELSE PurchaseFailed(isLocalPurchase)

Classify(errorMessage, isLocalPurchase) ==
    IF Includes(errorMessage, "InsufficientFeeTokenAmount")
        THEN "Insufficient funds for cross-chain fees"
    ELSE IF Includes(errorMessage, "SourceChainNotAllowlisted")
        THEN "Cross-chain purchases not supported from this network"
    ELSE IF Includes(errorMessage, "InsufficientTokenBalance")
        THEN "Insufficient USDT balance for this purchase"
    ELSE IF Includes(errorMessage, "InsufficientTokenAllowance")
        THEN "USDT allowance insufficient. Please approve the amount first"
    ELSE IF Includes(errorMessage, "InvalidTradeId") \/ Includes(errorMessage, "TradeNotFound")
        THEN "Invalid trade ID. This product may no longer be available"
    ELSE IF Includes(errorMessage, "InsufficientQuantity")
        THEN "Requested quantity exceeds available stock"
    ELSE IF Includes(errorMessage, "InvalidLogisticsProvider")
        THEN "Invalid logistics provider selected"
    ELSE IF Includes(errorMessage, "BuyerIsSeller")
        THEN "Cannot purchase your own product"
    ELSE IF Includes(errorMessage, "User rejected")
        THEN "Transaction was rejected by user"
    ELSE IF Includes(errorMessage, "gas")
        THEN "Transaction failed due to gas issues. Please try again"
    ELSE PurchaseFailed(isLocalPurchase)

\* getTrade's own catch: what it rethrows for a failed trades() read.
GetTradeError(raw) ==
    IF Includes(raw, "TradeNotFound") THEN "Trade not found"
    ELSE "Failed to fetch trade details"

(***************************************************************************)
(* Outcomes the environment can give to the awaited calls.                 *)
(***************************************************************************)
UnitCosts == {2500000, 10000000}            \* trades(tradeId).productCost
ReadFailures == {"TradeNotFound", "HTTP request failed."}
FeeEstimates == {3}                         \* getFee(...), in 10^15 wei
GasEstimates == {0, 100001}                 \* request.gas; 0: no estimate
WriteFailures ==
    {"User rejected the request.", "InvalidLogisticsProvider", "execution reverted",
     "Error: BuyerIsSeller() gas: 800000"}
Hashes == {"0xh1", ""}
TimeoutMessage == "Timed out while waiting for transaction with hash \"0xh1\" to be confirmed."
RevertReasons == {"unknown reason", "execution reverted"}
UsdtDecimals == {0, 6}                      \* usdtDecimals; 0: not loaded

\* parseUnits("0.01", 18), in 10^15 wei
DEFAULT_FEE == 10

\* Receipt logs: a log decodes against the ABI into an event, or fails to.
Log(ok, name, id) == [decodes |-> ok, eventName |-> name, id |-> id]
Receipts ==
    { <<>>,
      <<Log(TRUE, "MessageSent", 8)>>,
      <<Log(FALSE, "PurchaseCreated", 3), Log(TRUE, "PurchaseCreated", 5),
        Log(FALSE, "MessageSent", 7), Log(TRUE, "PurchaseCreated", 6),
        Log(TRUE, "MessageSent", 9)>> }

(***************************************************************************)
(* Values derived on every render.                                         *)
(***************************************************************************)
isConnected == address # NoAddress

isCorrectNetwork == chain = TARGET_CHAIN

usdtContractAddress ==
    IF address = NoAddress \/ chain = NoChain THEN <<>> ELSE USDT_ADDRESSES(chain)

escrowContractAddress ==
    IF chain = NoChain THEN <<>> ELSE ESCROW_ADDRESSES(chain)

\* The effect that mirrors the session into the wallet snapshot.
WalletSnapshot(a, c) == [isConnected |-> a # NoAddress, address |-> a, chainId |-> c]

(***************************************************************************)
(* Wallet session (wagmi useAccount / useConnect / useDisconnect).         *)
(* A wallet connected to a chain outside wagmiConfig.chains has an address *)
(* and no chain object.                                                    *)
(***************************************************************************)
Connect(a, c) ==
    /\ address = NoAddress
    /\ address' = a
    /\ chain' = c
    /\ wallet' = WalletSnapshot(a, c)
    /\ UNCHANGED <<env, isRefreshing, inFlight, timers, bt, sp, sc, rateVars, sessionVars, opVars>>

disconnectWallet ==
    /\ address # NoAddress
    /\ address' = NoAddress
    /\ chain' = NoChain
    /\ wallet' = WalletSnapshot(NoAddress, NoChain)
    /\ UNCHANGED <<env, isRefreshing, inFlight, timers, bt, sp, sc, rateVars, sessionVars, opVars>>

ChainChanged(c) ==
    /\ address # NoAddress
    /\ c # chain
    /\ chain' = c
    /\ wallet' = WalletSnapshot(address, c)
    /\ UNCHANGED <<address, env, isRefreshing, inFlight, timers, bt, sp, sc, rateVars, sessionVars, opVars>>

(***************************************************************************)
(* Balance Tracker: refreshBalances.                                       *)
(***************************************************************************)
\* The values a refreshBalances closure reads.
RefreshClosure == [ok |-> isConnected /\ isCorrectNetwork, isRefreshing |-> isRefreshing]

NoTimers == [s \in [ok : BOOLEAN, isRefreshing : BOOLEAN] |-> 0]

PendingTimers ==
    timers[[ok |-> TRUE, isRefreshing |-> TRUE]] + timers[[ok |-> TRUE, isRefreshing |-> FALSE]]
    + timers[[ok |-> FALSE, isRefreshing |-> TRUE]] + timers[[ok |-> FALSE, isRefreshing |-> FALSE]]

\* if (!isConnected || !address || !isCorrectNetwork || isRefreshing) return;
RefreshGuard(c) == c.ok /\ ~c.isRefreshing

\* refreshBalances as seen by a closure c: up to the await of the three refetches.
refreshBalances(c) ==
    IF RefreshGuard(c)
    THEN /\ inFlight < MaxInFlight
         /\ isRefreshing' = TRUE
         /\ inFlight' = inFlight + 1
    ELSE UNCHANGED <<isRefreshing, inFlight>>

\* The interval callback of the auto-refresh effect (re-created on every render).
IntervalTick ==
    /\ isConnected /\ isCorrectNetwork
    /\ \E isLoadingUSDT \in BOOLEAN :
          /\ ~isLoadingUSDT /\ ~isRefreshing
          /\ refreshBalances(RefreshClosure)
    /\ UNCHANGED <<address, chain, env, wallet, timers, bt, sp, sc, rateVars, sessionVars, opVars>>

\* refreshBalances called by a consumer of the context (current render).
UserRefresh ==
    /\ refreshBalances(RefreshClosure)
    /\ UNCHANGED <<address, chain, env, wallet, timers, bt, sp, sc, rateVars, sessionVars, opVars>>

\* A delayed refresh scheduled by a purchase fires: it runs the closure it captured.
TimerFire(c) ==
    /\ timers[c] > 0
    /\ timers' = [timers EXCEPT ![c] = @ - 1]
    /\ refreshBalances(c)
    /\ UNCHANGED <<address, chain, env, wallet, bt, sp, sc, rateVars, sessionVars, opVars>>

\* Promise.allSettled resolves; finally { setIsRefreshing(false) }.
RefreshSettled ==
    /\ inFlight > 0
    /\ inFlight' = inFlight - 1
    /\ isRefreshing' = FALSE
    /\ UNCHANGED <<address, chain, env, wallet, timers, bt, sp, sc, rateVars, sessionVars, opVars>>

(***************************************************************************)
(* Trade Transaction Orchestrator: buyTrade (unified, same-chain and       *)
(* cross-chain).                                                           *)
(***************************************************************************)
NoCall == [functionName |-> "none"]
NoTx == [hash |-> "none"]
Undefined == [undefined |-> TRUE]

NoParams ==
    [tradeId |-> NotANumber, quantity |-> NotANumber, logisticsProvider |-> UndefinedAddr,
     crossChain |-> [present |-> FALSE, destinationChainSelector |-> NotANumber,
                     destinationContract |-> UndefinedAddr, payFeesIn |-> "undefined"]]

NoSnap == [address |-> NoAddress, chain |-> NoChain,
           refresh |-> [ok |-> FALSE, isRefreshing |-> FALSE]]

Idle ==
    [pc |-> "idle", status |-> "idle", params |-> NoParams, snap |-> NoSnap,
     productCost |-> 0, amount |-> 0, feeStatus |-> "none", fee |-> 0,
     simulated |-> "no", requestGas |-> 0, gas |-> 0,
     sim |-> NoCall, write |-> NoCall, hash |-> "", receiptStatus |-> "", logs |-> <<>>,
     reads |-> 0, sims |-> 0, writes |-> 0, scheduled |-> 0, delay |-> 0,
     failedAt |-> "", raw |-> "", error |-> "", tx |-> NoTx]

\* Requests a caller can pass.
CCIP_CHAIN_SELECTORS(c) ==
    IF c = BASE_SEPOLIA THEN "10344971235874465080" ELSE "14767482510784806043"

LogisticsProviders == {AddrStr("0x", 42), AddrStr("ab", 42), AddrStr("0x", 41)}
DestinationContracts == {AddrStr("0x", 42), AddrStr("0x", 40)}
DestinationSelectors == {NumStr(CCIP_CHAIN_SELECTORS(BASE_SEPOLIA)), NumStr("999")}
Quantities == {NumStr(1), NumStr(MaxQuantity), NotANumber}
TradeIds == {NumStr(7)}

Requests ==
    [tradeId : TradeIds, quantity : Quantities, logisticsProvider : LogisticsProviders,
     crossChain : {NoParams.crossChain}
                  \cup [present : {TRUE}, destinationChainSelector : DestinationSelectors,
                        destinationContract : DestinationContracts,
                        payFeesIn : {"undefined", "0"}]]

isLocalPurchase(params) == ~params.crossChain.present

\* The three checks with the network check moved in front of the wallet check.
PreconditionErrorNetworkFirst(a, c, escrow, usdt) ==
    IF c # TARGET_CHAIN THEN "Please switch to the correct network first"
    ELSE IF a = NoAddress \/ c = NoChain THEN "Wallet not connected"
    ELSE IF escrow = <<>> \/ usdt = <<>> THEN "Contracts not available on this network"
    ELSE ""

\* The three checks before the try block, in the order of the code; "" when all pass.
PreconditionError(a, c, escrow, usdt) ==
    IF a = NoAddress \/ c = NoChain THEN "Wallet not connected"
    ELSE IF c # TARGET_CHAIN THEN "Please switch to the correct network first"
    ELSE IF escrow = <<>> \/ usdt = <<>> THEN "Contracts not available on this network"
    ELSE ""

\* The total computed from the unit cost rounded down to whole tokens.
TotalCostRounded(productCost, quantity) == (productCost \div 1000000) * quantity * 1000000

\* const totalProductCost = productCost * quantity (bigint)
TotalCost(productCost, quantity) == productCost * quantity

FallbackGas(local) == IF local THEN BUY_TRADE ELSE BUY_TRADE * 2

\* The gas limit with the same-chain margin on both paths.
GasLimitOneMargin(local, gas) ==
    IF gas # 0 THEN (gas * 120) \div 100 ELSE FallbackGas(local)

\* request.gas ? (request.gas * margin) / 100 : fallback   (bigint division truncates)
GasLimit(local, gas) ==
    IF gas # 0
    THEN IF local THEN (gas * 120) \div 100 ELSE (gas * 130) \div 100
    ELSE FallbackGas(local)

\* const { payFeesIn = 1 } = params.crossChain
PayFeesIn(cc) == IF cc.payFeesIn = "undefined" THEN "1" ELSE cc.payFeesIn

\* The fee attached whatever the fee token.
TxValueAlways(payFeesIn, crossChainFees) == crossChainFees

\* value: payFeesIn === 1 ? crossChainFees : 0n
TxValue(payFeesIn, crossChainFees) == IF payFeesIn = "1" THEN crossChainFees ELSE 0

\* timeout: isLocalPurchase ? 60000 : 120000
ReceiptTimeout(local) == IF local THEN 60000 ELSE 120000

\* The same-chain delay on both paths.
RefreshDelayOne(local) == 2000

\* setTimeout delay: isLocalPurchase ? 2000 : 5000
RefreshDelay(local) == IF local THEN 2000 ELSE 5000

\* A receipt wait that hands back every receipt, whatever its status.
ReceiptResultAny(receiptStatus) == "returns"

\* @wagmi/core waitForTransactionReceipt hands back a receipt whose status is
\* "success" and throws Error(reason) for one whose status is "reverted".
ReceiptResult(receiptStatus) == IF receiptStatus = "reverted" THEN "throws" ELSE "returns"

\* A record whose status follows the receipt.
TransactionStatusByReceipt(receiptObtained) ==
    IF receiptObtained THEN "confirmed" ELSE "pending"

\* status: "pending" in the record built by buyTrade (after the receipt) and by
\* sendPayment (with no receipt).
TransactionStatus(receiptObtained) == "pending"

\* formatUnits(value, decimals)
formatUnits(value, decimals) ==
    LET unit == IF decimals = 6 THEN 1000000 ELSE 1
    IN [whole |-> value \div unit, fraction |-> value % unit, decimals |-> decimals]

\* bigint.toString()
toString(n) == NumStr(n)

\* A decoding that gives up at the first log that fails to decode.
DecodedLogsUntilFailure(logs) ==
    IF \E i \in 1..Len(logs) : ~logs[i].decodes
    THEN SubSeq(logs, 1, (CHOOSE i \in 1..Len(logs) :
                            ~logs[i].decodes /\ \A j \in 1..(i - 1) : logs[j].decodes) - 1)
    ELSE logs

\* receipt.logs.map(decodeEventLog or null).filter(Boolean)
DecodedLogs(logs) == SelectSeq(logs, LAMBDA l : l.decodes)

\* decodedLogs.find(event => event.eventName === name): the first such event
FindEvent(decoded, name) ==
    IF \E i \in 1..Len(decoded) : decoded[i].eventName = name
    THEN LET i == CHOOSE i \in 1..Len(decoded) :
                    /\ decoded[i].eventName = name
                    /\ \A j \in 1..(i - 1) : decoded[j].eventName # name
         IN [found |-> TRUE, id |-> decoded[i].id]
    ELSE [found |-> FALSE, id |-> 0]

\* purchaseId = args.purchaseId?.toString()
PurchaseIdOf(decoded) ==
    LET e == FindEvent(decoded, "PurchaseCreated")
    IN IF e.found THEN toString(e.id) ELSE Undefined

\* messageId = args.messageId (the bytes32 value as decoded, cross-chain only)
MessageIdOf(decoded, local) ==
    LET e == FindEvent(decoded, "MessageSent")
    IN IF ~local /\ e.found THEN [bytes32 |-> e.id] ELSE Undefined

buyerArgs(b) ==
    <<b.params.tradeId.val, b.params.quantity.val, b.params.logisticsProvider,
      USDT_ADDRESSES(b.snap.chain), b.amount, b.amount>>

crossArgs(b) ==
    <<b.params.crossChain.destinationChainSelector.val, b.params.crossChain.destinationContract>>
    \o buyerArgs(b) \o <<PayFeesIn(b.params.crossChain)>>

\* The catch block: the call ends by throwing the classified message.  What is
\* kept of the call is its request, what it issued, where and with what it failed.
Thrown(b, raw) ==
    [Idle EXCEPT !.pc = "done", !.status = "thrown", !.params = b.params, !.snap = b.snap,
                 !.reads = b.reads, !.sims = b.sims, !.writes = b.writes,
                 !.scheduled = b.scheduled, !.receiptStatus = b.receiptStatus,
                 !.failedAt = b.pc, !.raw = raw,
                 !.error = Classify(raw, isLocalPurchase(b.params))]

\* simulateContract is called with the purchase arguments.
Simulate(b) ==
    [b EXCEPT !.pc = "simulate", !.sims = @ + 1,
              !.sim = IF isLocalPurchase(b.params)
                      THEN [functionName |-> "buyTrade", args |-> buyerArgs(b),
                            account |-> b.snap.address, value |-> 0]
                      ELSE [functionName |-> "buyCrossChainTrade", args |-> crossArgs(b),
                            account |-> b.snap.address,
                            value |-> TxValue(PayFeesIn(b.params.crossChain), b.fee)]]

\* writeContractAsync is called with the purchase arguments and the gas limit.
Write(b) ==
    [b EXCEPT !.pc = "write", !.writes = @ + 1,
              !.write = IF isLocalPurchase(b.params)
                        THEN [functionName |-> "buyTrade", args |-> buyerArgs(b),
                              gas |-> b.gas, value |-> 0]
                        ELSE [functionName |-> "buyCrossChainTrade", args |-> crossArgs(b),
                              gas |-> b.gas,
                              value |-> TxValue(PayFeesIn(b.params.crossChain), b.fee)]]

\* buyTrade is called from the current render: everything up to the first await.
BuyTrade(params) ==
    /\ bt.pc = "idle" /\ sp.pc = "idle" /\ sc.pc = "idle"
    /\ PendingTimers < MaxTimers
    /\ LET b0 == [Idle EXCEPT !.params = params, !.status = "running",
                              !.snap = [address |-> address, chain |-> chain,
                                        refresh |-> RefreshClosure]]
           pre == PreconditionError(address, chain, escrowContractAddress, usdtContractAddress)
           b0try == [b0 EXCEPT !.pc = "validate"]
       IN bt' =
            IF pre # ""
                THEN [b0 EXCEPT !.pc = "done", !.status = "thrown", !.failedAt = "precondition",
                                !.raw = pre, !.error = pre]
            ELSE IF ~params.tradeId.num \/ ~params.quantity.num
                THEN Thrown(b0try, "Cannot convert abc to a BigInt")
            ELSE IF ~ValidAddress(params.logisticsProvider)
                THEN Thrown(b0try, "Invalid logistics provider address")
            ELSE [b0 EXCEPT !.pc = "getTrade", !.reads = @ + 1]
    /\ UNCHANGED <<address, chain, env, wallet, isRefreshing, inFlight, timers, sp, sc, rateVars, sessionVars, opVars>>

\* getTrade's read resolves with the trade: amounts, then the path's next call.
GetTradeReturns(productCost) ==
    /\ bt.pc = "getTrade"
    /\ LET b1 == [bt EXCEPT !.productCost = productCost,
                            !.amount = TotalCost(productCost, bt.params.quantity.val)]
           cc == bt.params.crossChain
       IN bt' =
            IF isLocalPurchase(bt.params) THEN Simulate(b1)
            ELSE IF ~cc.destinationChainSelector.num
                THEN Thrown(b1, "Cannot convert abc to a BigInt")
            ELSE IF ~ValidAddress(cc.destinationContract)
                THEN Thrown(b1, "Invalid destination contract address")
            ELSE [b1 EXCEPT !.pc = "fee", !.reads = @ + 1]
    /\ UNCHANGED <<address, chain, env, wallet, isRefreshing, inFlight, timers, sp, sc, rateVars, sessionVars, opVars>>

\* getTrade's read rejects: getTrade rethrows, buyTrade's catch classifies.
GetTradeFails(raw) ==
    /\ bt.pc = "getTrade"
    /\ bt' = Thrown(bt, GetTradeError(raw))
    /\ UNCHANGED <<address, chain, env, wallet, isRefreshing, inFlight, timers, sp, sc, rateVars, sessionVars, opVars>>

\* estimateCrossChainFees resolves: with the getFee read, or with its default.
FeeReturns(fees) ==
    /\ bt.pc = "fee"
    /\ bt' = Simulate([bt EXCEPT !.feeStatus = "estimated", !.fee = fees])
    /\ UNCHANGED <<address, chain, env, wallet, isRefreshing, inFlight, timers, sp, sc, rateVars, sessionVars, opVars>>

FeeFails ==
    /\ bt.pc = "fee"
    /\ bt' = Simulate([bt EXCEPT !.feeStatus = "default", !.fee = DEFAULT_FEE])
    /\ UNCHANGED <<address, chain, env, wallet, isRefreshing, inFlight, timers, sp, sc, rateVars, sessionVars, opVars>>

\* simulateContract resolves: the gas limit, then the write.
SimulateReturns(gas) ==
    /\ bt.pc = "simulate"
    /\ bt' = Write([bt EXCEPT !.simulated = "returned", !.requestGas = gas,
                              !.gas = GasLimit(isLocalPurchase(bt.params), gas)])
    /\ UNCHANGED <<address, chain, env, wallet, isRefreshing, inFlight, timers, sp, sc, rateVars, sessionVars, opVars>>

SimulateFails ==
    /\ bt.pc = "simulate"
    /\ bt' = Write([bt EXCEPT !.simulated = "threw",
                              !.gas = FallbackGas(isLocalPurchase(bt.params))])
    /\ UNCHANGED <<address, chain, env, wallet, isRefreshing, inFlight, timers, sp, sc, rateVars, sessionVars, opVars>>

\* writeContractAsync resolves with a hash: the receipt wait starts.
WriteReturns(hash) ==
    /\ bt.pc = "write"
    /\ bt' = IF hash = ""
             THEN Thrown(bt, "Transaction failed to execute")
             ELSE [bt EXCEPT !.pc = "wait", !.hash = hash]
    /\ UNCHANGED <<address, chain, env, wallet, isRefreshing, inFlight, timers, sp, sc, rateVars, sessionVars, opVars>>

WriteFails(raw) ==
    /\ bt.pc = "write"
    /\ bt' = Thrown(bt, raw)
    /\ UNCHANGED <<address, chain, env, wallet, isRefreshing, inFlight, timers, sp, sc, rateVars, sessionVars, opVars>>

\* The receipt wait resolves: decode the logs, schedule the refresh, return.
ReceiptObtained(receiptStatus, logs, usdtDecimals, reason) ==
    /\ bt.pc = "wait"
    /\ IF ReceiptResult(receiptStatus) = "throws"
       THEN /\ bt' = Thrown([bt EXCEPT !.receiptStatus = receiptStatus], reason)
            /\ UNCHANGED timers
       ELSE LET local == isLocalPurchase(bt.params)
                decodedLogs == DecodedLogs(logs)
                decimals == IF usdtDecimals = 0 THEN 6 ELSE usdtDecimals
            IN /\ timers' = [timers EXCEPT ![bt.snap.refresh] = @ + 1]
               /\ bt' = [bt EXCEPT
                    !.pc = "done", !.status = "returned", !.scheduled = @ + 1,
                    !.delay = RefreshDelay(local),
                    !.receiptStatus = receiptStatus, !.logs = logs,
                    !.tx = [hash |-> bt.hash,
                            amount |-> formatUnits(bt.amount, decimals),
                            token |-> "USDT",
                            to |-> ESCROW_ADDRESSES(bt.snap.chain),
                            from |-> bt.snap.address,
                            status |-> TransactionStatus(TRUE),
                            purchaseId |-> PurchaseIdOf(decodedLogs),
                            messageId |-> MessageIdOf(decodedLogs, local),
                            crossChain |-> ~local]]
    /\ UNCHANGED <<address, chain, env, wallet, isRefreshing, inFlight, sp, sc, rateVars, sessionVars, opVars>>

\* The receipt wait runs into its timeout.
ReceiptTimesOut ==
    /\ bt.pc = "wait"
    /\ bt' = Thrown(bt, TimeoutMessage)
    /\ UNCHANGED <<address, chain, env, wallet, isRefreshing, inFlight, timers, sp, sc, rateVars, sessionVars, opVars>>

\* The caller's await of buyTrade settles: it has the result or the error.
Settled ==
    /\ bt.pc = "done"
    /\ bt' = Idle
    /\ UNCHANGED <<address, chain, env, wallet, isRefreshing, inFlight, timers, sp, sc, rateVars, sessionVars, opVars>>

(***************************************************************************)
(* sendPayment: a token transfer.  switchToCorrectNetwork awaits           *)
(* useSwitchChain().switchChain, the mutation's fire-and-forget form: the  *)
(* await resolves at once and the wallet changes chain, or does not, on    *)
(* its own (ChainChanged).  What follows the one-second delay reads the    *)
(* values of the render sendPayment was called from.                       *)
(***************************************************************************)
\* A decimal amount string: whole tokens and millionths, or no number.
DecStr(w, f) == [num |-> TRUE, whole |-> w, micro |-> f]
NotADecimal == [num |-> FALSE, whole |-> 0, micro |-> 0]

\* parseUnits(amount, 6)
parseUnits(amount, decimals) ==
    LET unit == IF decimals = 6 THEN 1000000 ELSE 1
    IN amount.whole * unit + amount.micro \div (1000000 \div unit)

Amounts == {DecStr(1, 500000), NotADecimal}
Recipients == {AddrStr("0x", 42)}
PaymentRequests == [amount : Amounts, to : Recipients]

NoPayment == [amount |-> NotADecimal, to |-> UndefinedAddr]

NoPaymentSnap == [address |-> NoAddress, chain |-> NoChain, usdt |-> <<>>,
                  decimals |-> 0, refresh |-> [ok |-> FALSE, isRefreshing |-> FALSE]]

PaymentIdle ==
    [pc |-> "idle", status |-> "idle", params |-> NoPayment, snap |-> NoPaymentSnap,
     switched |-> FALSE, write |-> NoCall, writes |-> 0, scheduled |-> 0,
     error |-> "", tx |-> NoTx]

\* The call ends by throwing.
PaymentThrown(p, message) ==
    [p EXCEPT !.pc = "done", !.status = "thrown", !.error = message]

\* From the contract check to the await of the write.
PaymentSubmit(p) ==
    IF p.snap.usdt = <<>>
        THEN PaymentThrown(p, "USDT not supported on this network")
    ELSE IF ~p.params.amount.num
        THEN PaymentThrown(p, "Number \"abc\" is not a valid decimal number.")
    ELSE [p EXCEPT !.pc = "write", !.writes = @ + 1,
                   !.write = [functionName |-> "transfer", address |-> p.snap.usdt,
                              args |-> <<p.params.to,
                                         parseUnits(p.params.amount, p.snap.decimals)>>,
                              chain |-> chain]]

\* sendPayment is called from the current render: everything up to the first await.
SendPayment(params, usdtDecimals) ==
    /\ sp.pc = "idle" /\ bt.pc = "idle" /\ sc.pc = "idle"
    /\ PendingTimers < MaxTimers
    /\ LET p0 == [PaymentIdle EXCEPT
                    !.params = params, !.status = "running",
                    !.snap = [address |-> address, chain |-> chain,
                              usdt |-> usdtContractAddress,
                              decimals |-> IF usdtDecimals = 0 THEN 6 ELSE usdtDecimals,
                              refresh |-> RefreshClosure]]
       IN sp' =
            IF address = NoAddress \/ chain = NoChain
                THEN PaymentThrown(p0, "Wallet not connected")
            ELSE IF ~isCorrectNetwork
                THEN [p0 EXCEPT !.pc = "switch", !.switched = TRUE]
            ELSE PaymentSubmit(p0)
    /\ UNCHANGED <<address, chain, env, wallet, isRefreshing, inFlight, timers, bt, sc, rateVars, sessionVars, opVars>>

\* The one-second delay after the switch request has elapsed.
SwitchDelayElapsed ==
    /\ sp.pc = "switch"
    /\ sp' = PaymentSubmit(sp)
    /\ UNCHANGED <<address, chain, env, wallet, isRefreshing, inFlight, timers, bt, sc, rateVars, sessionVars, opVars>>

\* The transfer write resolves with a hash: record, delayed refresh, return.
PaymentWriteReturns(hash) ==
    /\ sp.pc = "write"
    /\ timers' = [timers EXCEPT ![sp.snap.refresh] = @ + 1]
    /\ sp' = [sp EXCEPT !.pc = "done", !.status = "returned", !.scheduled = @ + 1,
                        !.tx = [hash |-> hash, amount |-> sp.params.amount,
                                token |-> "USDT", to |-> sp.params.to,
                                from |-> sp.snap.address,
                                status |-> TransactionStatus(FALSE)]]
    /\ UNCHANGED <<address, chain, env, wallet, isRefreshing, inFlight, bt, sc, rateVars, sessionVars, opVars>>

\* The transfer write rejects: the catch rethrows the error as it is.
PaymentWriteFails(raw) ==
    /\ sp.pc = "write"
    /\ sp' = PaymentThrown(sp, raw)
    /\ UNCHANGED <<address, chain, env, wallet, isRefreshing, inFlight, timers, bt, sc, rateVars, sessionVars, opVars>>

\* The caller's await of sendPayment settles.
PaymentSettled ==
    /\ sp.pc = "done"
    /\ sp' = PaymentIdle
    /\ UNCHANGED <<address, chain, env, wallet, isRefreshing, inFlight, timers, bt, sc, rateVars, sessionVars, opVars>>

(***************************************************************************)
(* useSmartContract: the purchase operations of the hook.  They read the   *)
(* wallet snapshot and isCorrectNetwork of the context; each body is one   *)
(* try block whose catch turns the failure into a result.  Their           *)
(* switchToCorrectNetwork is the context's: its await resolves at once,    *)
(* whatever the wallet then does with the switch request.                  *)
(***************************************************************************)
GAS_LIMITS(name) ==
    CASE name = "APPROVE" -> 100000
      [] name = "BUY_TRADE_CROSS_CHAIN" -> 1200000
      [] name = "CONFIRM_DELIVERY" -> 200000
      [] name = "RAISE_DISPUTE" -> 300000
      [] name = "CANCEL_PURCHASE" -> 250000

isCrossChainSupported(sourceChainId, destinationChainId) ==
    sourceChainId \in SUPPORTED_CHAINS /\ destinationChainId \in SUPPORTED_CHAINS

\* CROSS_CHAIN_FEES[source]?.[destination] || "1000000000000000", in wei
getCrossChainFee(sourceChainId, destinationChainId) ==
    IF sourceChainId = AVALANCHE_FUJI /\ destinationChainId = BASE_SEPOLIA
        THEN "800000000000000"
    ELSE IF sourceChainId = BASE_SEPOLIA /\ destinationChainId = AVALANCHE_FUJI
        THEN "800000000000000"
    ELSE "1000000000000000"

\* getEscrowAddress(): the address, or the message of the error it throws.
getEscrowAddress(w) ==
    IF w.chainId = NoChain
        THEN [ok |-> FALSE, address |-> <<>>, error |-> "Wallet not connected"]
    ELSE IF ESCROW_ADDRESSES(w.chainId) = <<>>
        THEN [ok |-> FALSE, address |-> <<>>,
              error |-> "Escrow contract not available on this network"]
    ELSE [ok |-> TRUE, address |-> ESCROW_ADDRESSES(w.chainId), error |-> ""]

PurchaseOps == {"confirmDelivery", "cancelPurchase", "raiseDispute"}
HookOps == PurchaseOps \cup {"buyCrossChainTrade"}

PurchaseIds == {NumStr(5), NotANumber}
DestinationChainIds == {BASE_SEPOLIA, "1"}
HookWriteFailures == {"User rejected the request.", "InvalidPurchaseState", "execution reverted"}

NoHookArgs ==
    [purchaseId |-> NotANumber, isLocalPurchase |-> TRUE, destinationChainId |-> NoChain,
     tradeId |-> NotANumber, quantity |-> NotANumber, logisticsProvider |-> UndefinedAddr]

HookCalls ==
    [op : PurchaseOps,
     args : {[NoHookArgs EXCEPT !.purchaseId = id, !.isLocalPurchase = l] :
                id \in PurchaseIds, l \in BOOLEAN}]
    \cup
    [op : {"buyCrossChainTrade"},
     args : {[NoHookArgs EXCEPT !.destinationChainId = d, !.tradeId = NumStr(7),
                                !.quantity = q, !.logisticsProvider = AddrStr("0x", 42)] :
                d \in DestinationChainIds, q \in {NumStr(1), NotANumber}}]

NoResult == [success |-> FALSE, message |-> "", hash |-> ""]

HookIdle ==
    [pc |-> "idle", status |-> "idle", op |-> "", args |-> NoHookArgs,
     snap |-> [wallet |-> WalletSnapshot(NoAddress, NoChain), isCorrectNetwork |-> FALSE],
     submittedOn |-> NoChain, write |-> NoCall, writes |-> 0, writeOutcome |-> "none",
     receipt |-> "none", result |-> NoResult]

\* The contract function an operation writes to.
HookFunction(op, isLocal) ==
    CASE op = "confirmDelivery" ->
            IF isLocal THEN "confirmDelivery" ELSE "confirmCrossChainDelivery"
      [] op = "cancelPurchase" ->
            IF isLocal THEN "cancelPurchase" ELSE "cancelCrossChainPurchase"
      [] op = "raiseDispute" ->
            IF isLocal THEN "raiseDispute" ELSE "raiseCrossChainDispute"
      [] op = "buyCrossChainTrade" -> "buyCrossChainTrade"

HookGas(op) ==
    CASE op = "confirmDelivery" -> GAS_LIMITS("CONFIRM_DELIVERY")
      [] op = "cancelPurchase" -> GAS_LIMITS("CANCEL_PURCHASE")
      [] op = "raiseDispute" -> GAS_LIMITS("RAISE_DISPUTE")
      [] op = "buyCrossChainTrade" -> GAS_LIMITS("BUY_TRADE_CROSS_CHAIN")

SuccessMessage(op) ==
    CASE op = "confirmDelivery" -> "Delivery confirmation submitted successfully"
      [] op = "cancelPurchase" -> "Purchase cancellation submitted successfully"
      [] op = "raiseDispute" -> "Dispute raised successfully"
      [] op = "buyCrossChainTrade" -> "Cross-chain purchase initiated successfully"

\* The message chosen by the catch block of confirmDelivery.
ConfirmDeliveryMessage(raw) ==
    IF Includes(raw, "InvalidPurchaseId")
        THEN "Invalid purchase ID. Please check and try again."
    ELSE IF Includes(raw, "InvalidPurchaseState")
        THEN "Purchase is not in the correct state for delivery confirmation."
    ELSE IF Includes(raw, "NotAuthorized")
        THEN "You are not authorized to confirm this delivery."
    ELSE IF Includes(raw, "PurchaseNotFound")
        THEN "Purchase not found. Please check the purchase ID."
    ELSE IF Includes(raw, "User rejected") THEN "Transaction was cancelled by user."
    ELSE IF Includes(raw, "insufficient funds") THEN "Insufficient funds for gas fees."
    ELSE "Failed to confirm delivery. Please try again."

\* The message chosen by the catch block of cancelPurchase.
CancelPurchaseMessage(raw) ==
    IF Includes(raw, "InvalidPurchaseId")
        THEN "Invalid purchase ID. Please check and try again."
    ELSE IF Includes(raw, "InvalidPurchaseState")
        THEN "Purchase cannot be cancelled in its current state."
    ELSE IF Includes(raw, "NotAuthorized")
        THEN "You are not authorized to cancel this purchase."
    ELSE IF Includes(raw, "PurchaseNotFound")
        THEN "Purchase not found. Please check the purchase ID."
    ELSE IF Includes(raw, "User rejected") THEN "Transaction was cancelled by user."
    ELSE IF Includes(raw, "insufficient funds") THEN "Insufficient funds for gas fees."
    ELSE "Failed to cancel purchase. Please try again."

\* The message chosen by the catch block of raiseDispute.  The source shows the
\* block up to its third branch; the rest follows the two operations above.
RaiseDisputeMessage(raw) ==
    IF Includes(raw, "InvalidPurchaseId")
        THEN "Invalid purchase ID. Please check and try again."
    ELSE IF Includes(raw, "InvalidPurchaseState")
        THEN "Dispute cannot be raised for this purchase."
    ELSE IF Includes(raw, "NotAuthorized")
        THEN "You are not authorized to raise a dispute for this purchase."
    ELSE IF Includes(raw, "PurchaseNotFound")
        THEN "Purchase not found. Please check the purchase ID."
    ELSE IF Includes(raw, "User rejected") THEN "Transaction was cancelled by user."
    ELSE IF Includes(raw, "insufficient funds") THEN "Insufficient funds for gas fees."
    ELSE "Failed to raise dispute. Please try again."

\* The message chosen by the catch block of buyCrossChainTrade.
BuyCrossChainMessage(raw) ==
    IF Includes(raw, "InsufficientUSDTBalance")
        THEN "Insufficient USDT balance for this purchase."
    ELSE IF Includes(raw, "InsufficientUSDTAllowance")
        THEN "USDT allowance insufficient. Please approve the amount first."
    ELSE IF Includes(raw, "InvalidTradeId") THEN "Trade not found on destination chain."
    ELSE IF Includes(raw, "InsufficientQuantity")
        THEN "Requested quantity exceeds available stock."
    ELSE IF Includes(raw, "User rejected") THEN "Transaction was cancelled by user."
    ELSE IF Includes(raw, "insufficient funds")
        THEN "Insufficient funds for gas and cross-chain fees."
    ELSE "Cross-chain purchase failed. Please try again."

HookMessage(op, raw) ==
    CASE op = "confirmDelivery" -> ConfirmDeliveryMessage(raw)
      [] op = "cancelPurchase" -> CancelPurchaseMessage(raw)
      [] op = "raiseDispute" -> RaiseDisputeMessage(raw)
      [] op = "buyCrossChainTrade" -> BuyCrossChainMessage(raw)

\* The operation ends by returning a result.
HookReturns(h, result) == [h EXCEPT !.pc = "done", !.status = "returned", !.result = result]

Failure(message) == [success |-> FALSE, message |-> message, hash |-> ""]

\* catch (error) { ...; return { success: false, message: errorMessage } }
HookCatch(h, raw) == HookReturns(h, Failure(HookMessage(h.op, raw)))

\* From the first statement after the network check to the await of the write.
HookSubmit(h) ==
    LET w == h.snap.wallet
        a == h.args
        escrow == getEscrowAddress(w)
        issue(args, value) ==
            [h EXCEPT !.pc = "write", !.writes = @ + 1,
                      !.write = [functionName |-> HookFunction(h.op, a.isLocalPurchase),
                                 address |-> escrow.address, args |-> args,
                                 value |-> value, gas |-> HookGas(h.op), chain |-> chain]]
    IN IF h.op = "buyCrossChainTrade"
       THEN IF ~isCrossChainSupported(w.chainId, a.destinationChainId)
                THEN HookReturns(h, Failure("Cross-chain operation not supported between these networks"))
            ELSE IF ~escrow.ok THEN HookCatch(h, escrow.error)
            ELSE IF a.destinationChainId \notin SUPPORTED_CHAINS
                THEN HookReturns(h, Failure("Invalid destination chain"))
            ELSE IF ~a.tradeId.num \/ ~a.quantity.num
                THEN HookCatch(h, "Cannot convert abc to a BigInt")
            ELSE issue(<<CCIP_CHAIN_SELECTORS(a.destinationChainId), a.tradeId.val,
                         a.quantity.val, a.logisticsProvider>>,
                       getCrossChainFee(w.chainId, a.destinationChainId))
       ELSE IF ~escrow.ok THEN HookCatch(h, escrow.error)
            ELSE IF ~a.purchaseId.num THEN HookCatch(h, "Cannot convert abc to a BigInt")
            ELSE issue(<<a.purchaseId.val>>, "0")

\* An operation of the hook is called from the current render.
HookCall(call) ==
    /\ sc.pc = "idle" /\ bt.pc = "idle" /\ sp.pc = "idle"
    /\ LET h0 == [HookIdle EXCEPT
                    !.op = call.op, !.args = call.args, !.status = "running",
                    !.snap = [wallet |-> wallet, isCorrectNetwork |-> isCorrectNetwork]]
       IN sc' =
            IF ~wallet.isConnected \/ wallet.address = NoAddress
                THEN HookReturns(h0, Failure("Please connect your wallet first"))
            ELSE IF ~isCorrectNetwork
                THEN [h0 EXCEPT !.pc = "switch"]
            ELSE HookSubmit([h0 EXCEPT !.submittedOn = chain])
    /\ UNCHANGED <<address, chain, env, wallet, isRefreshing, inFlight, timers, bt, sp, rateVars, sessionVars, opVars>>

\* The delay after the switch request has elapsed.
HookSwitchDelayElapsed ==
    /\ sc.pc = "switch"
    /\ sc' = HookSubmit([sc EXCEPT !.submittedOn = chain])
    /\ UNCHANGED <<address, chain, env, wallet, isRefreshing, inFlight, timers, bt, sp, rateVars, sessionVars, opVars>>

\* The write resolves with a hash: the operation returns success.
HookWriteReturns(hash) ==
    /\ sc.pc = "write"
    /\ sc' = HookReturns([sc EXCEPT !.writeOutcome = "resolved"],
                          [success |-> TRUE, message |-> SuccessMessage(sc.op),
                           hash |-> hash])
    /\ UNCHANGED <<address, chain, env, wallet, isRefreshing, inFlight, timers, bt, sp, rateVars, sessionVars, opVars>>

\* The write rejects.
HookWriteFails(raw) ==
    /\ sc.pc = "write"
    /\ sc' = HookCatch([sc EXCEPT !.writeOutcome = "rejected"], raw)
    /\ UNCHANGED <<address, chain, env, wallet, isRefreshing, inFlight, timers, bt, sp, rateVars, sessionVars, opVars>>

\* The caller's await of the operation settles.
HookSettled ==
    /\ sc.pc = "done"
    /\ sc' = HookIdle
    /\ UNCHANGED <<address, chain, env, wallet, isRefreshing, inFlight, timers, bt, sp, rateVars, sessionVars, opVars>>

(***************************************************************************)
(* useCurrencyConverter (rate cache).  Time is counted in minutes, so the  *)
(* retry delays of a refresh do not advance the clock.  The currency of    *)
(* the user's country is taken as USD throughout (fetchGeoData never       *)
(* throws), and a persisted entry is the record itself: JSON.stringify     *)
(* followed by JSON.parse returns finite numbers and strings unchanged.    *)
(* A ratio is kept as the pair <<numerator, denominator>>.                 *)
(* The effect that watches the chain runs after every render that changed  *)
(* one of its dependencies; it is part of the step that caused the render. *)
(* The refreshes in flight are kept as a bag of what their closures hold.  *)
(***************************************************************************)
MaxTicks == 1
MaxFetches == 2

RATE_CACHE_DURATION == 5
STALE_CACHE_DURATION == 30
MAX_RETRIES == 2
RETRY_DELAY == 1
DEFAULT_CHAIN_ID == AVALANCHE_FUJI
MAINNET == "1"

NoToken == [symbol |-> "undefined", name |-> "undefined", coingeckoId |-> "undefined"]

CHAIN_NATIVE_TOKENS(chainId) ==
    CASE chainId = AVALANCHE_FUJI ->
            [symbol |-> "AVAX", name |-> "Avalanche", coingeckoId |-> "avalanche-2"]
      [] chainId \in {BASE_SEPOLIA, MAINNET} ->
            [symbol |-> "ETH", name |-> "Ethereum", coingeckoId |-> "ethereum"]
      [] OTHER -> NoToken

DEFAULT_RATES ==
    [USDT_NATIVE |-> <<1, 40>>, USDT_FIAT |-> 1, NATIVE_FIAT |-> 40,
     nativeTokenSymbol |-> "AVAX", nativeTokenName |-> "Avalanche",
     chainId |-> DEFAULT_CHAIN_ID]

CACHE_KEYS_RATES_OneKey(chainId) == <<"currency_rates_v2", DEFAULT_CHAIN_ID>>

CACHE_KEYS_RATES(chainId) == <<"currency_rates_v2", chainId>>

isSupportedChain(chainId) == chainId # NoChain /\ chainId \in SUPPORTED_CHAINS

getEffectiveChainId(p) ==
    IF ~p.isConnected THEN DEFAULT_CHAIN_ID
    ELSE IF p.chainId = NoChain THEN DEFAULT_CHAIN_ID
    ELSE p.chainId

isUnsupportedNetwork(p) ==
    p.isConnected /\ p.chainId # NoChain /\ ~isSupportedChain(p.chainId)

nativeTokenInfo(effectiveChainId) ==
    IF CHAIN_NATIVE_TOKENS(effectiveChainId) # NoToken
    THEN CHAIN_NATIVE_TOKENS(effectiveChainId)
    ELSE CHAIN_NATIVE_TOKENS(DEFAULT_CHAIN_ID)

\* useCurrencyConverter() is the call without arguments.
NoProps == [chainId |-> NoChain, isConnected |-> FALSE]
PropsSet ==
    {NoProps} \cup
    {[chainId |-> c, isConnected |-> TRUE] : c \in SUPPORTED_CHAINS \cup {MAINNET}}

\* { ...DEFAULT_RATES, nativeTokenSymbol, nativeTokenName, chainId, lastUpdated }
DefaultRecord(effectiveChainId, token, lastUpdated) ==
    [USDT_NATIVE |-> DEFAULT_RATES.USDT_NATIVE,
     USDT_FIAT |-> DEFAULT_RATES.USDT_FIAT,
     NATIVE_FIAT |-> DEFAULT_RATES.NATIVE_FIAT,
     nativeTokenSymbol |-> token.symbol,
     nativeTokenName |-> token.name,
     chainId |-> effectiveChainId,
     lastUpdated |-> lastUpdated]

NoEntry == [chainId |-> NoChain]
\* A value under a rates key that JSON.parse throws on.
Unparseable == [chainId |-> "unparseable"]
RateKeys == {CACHE_KEYS_RATES(c) : c \in SUPPORTED_CHAINS \cup {MAINNET}}

\* The answers of the price source to one attempt.
PriceResponses ==
    {[kind |-> "networkError", tether |-> FALSE, nativeUsd |-> 0],
     [kind |-> "httpError", tether |-> FALSE, nativeUsd |-> 0],
     [kind |-> "json", tether |-> FALSE, nativeUsd |-> 25],
     [kind |-> "json", tether |-> TRUE, nativeUsd |-> 0],
     [kind |-> "json", tether |-> TRUE, nativeUsd |-> 20]}

\* What one attempt throws; "none" when it goes through.
AttemptError(response) ==
    CASE response.kind = "networkError" -> "Failed to fetch"
      [] response.kind = "httpError" -> "HTTP 429: Too Many Requests"
      [] ~response.tether -> "Invalid API response structure"
      [] response.nativeUsd <= 0 -> "Invalid native token price data"
      [] OTHER -> "none"

\* newRates of a successful attempt (data.tether.usd is 1).
NewRates(f, response, t) ==
    [USDT_NATIVE |-> <<1, response.nativeUsd>>,
     USDT_FIAT |-> 1,
     NATIVE_FIAT |-> response.nativeUsd,
     nativeTokenSymbol |-> f.nativeTokenInfo.symbol,
     nativeTokenName |-> f.nativeTokenInfo.name,
     chainId |-> f.effectiveChainId,
     lastUpdated |-> t]

\* An initialiser that takes the persisted record whatever its age.
InitialRatesAnyAge(store, p, t) ==
    LET effectiveChainId == getEffectiveChainId(p)
        parsed == store[CACHE_KEYS_RATES(effectiveChainId)]
    IN  IF parsed # NoEntry /\ parsed # Unparseable
        THEN parsed
        ELSE DefaultRecord(effectiveChainId, nativeTokenInfo(effectiveChainId), 0)

\* The useState initialiser of rates.
InitialRates(store, p, t) ==
    LET effectiveChainId == getEffectiveChainId(p)
        parsed == store[CACHE_KEYS_RATES(effectiveChainId)]
    IN  IF /\ parsed # NoEntry
           /\ parsed # Unparseable
           /\ t - parsed.lastUpdated < STALE_CACHE_DURATION
        THEN parsed
        ELSE DefaultRecord(effectiveChainId, nativeTokenInfo(effectiveChainId), 0)

\* A refresh past its synchronous part: what its closure captured.
NewFetch(p) ==
    [effectiveChainId |-> getEffectiveChainId(p),
     nativeTokenInfo |-> nativeTokenInfo(getEffectiveChainId(p)),
     retryCount |-> 0,
     delay |-> 0]

\* Every refresh that can be in flight: a refresh is started for supported chains only.
Fetches ==
    {[effectiveChainId |-> c, nativeTokenInfo |-> nativeTokenInfo(c),
      retryCount |-> n, delay |-> RETRY_DELAY * n] :
        c \in SUPPORTED_CHAINS, n \in 0..MAX_RETRIES}

\* fetchRates without the test for recent data.
fetchRatesAlways(h, p, forceRefresh, t) ==
    LET effectiveChainId == getEffectiveChainId(p)
    IN  IF isUnsupportedNetwork(p)
        THEN [h EXCEPT !.rates = DefaultRecord(effectiveChainId,
                                               nativeTokenInfo(effectiveChainId), t)]
        ELSE [h EXCEPT !.loading = TRUE, !.error = "null",
                       !.fetches = @ (+) SetToBag({NewFetch(p)})]

\* fetchRates up to its first await.
fetchRates(h, p, forceRefresh, t) ==
    LET effectiveChainId == getEffectiveChainId(p)
    IN  IF /\ ~forceRefresh
           /\ h.rates.chainId = effectiveChainId
           /\ h.rates.lastUpdated # 0
           /\ t - h.rates.lastUpdated < RATE_CACHE_DURATION
        THEN h
        ELSE IF isUnsupportedNetwork(p)
        THEN [h EXCEPT !.rates = DefaultRecord(effectiveChainId,
                                               nativeTokenInfo(effectiveChainId), t)]
        ELSE [h EXCEPT !.loading = TRUE, !.error = "null",
                       !.fetches = @ (+) SetToBag({NewFetch(p)})]

\* The effect "fetch rates when chain changes".
ChainEffect(h, p, t) ==
    LET effectiveChainId == getEffectiveChainId(p)
        needsFresh == \/ h.rates.lastUpdated = 0
                      \/ h.rates.chainId # effectiveChainId
                      \/ t - h.rates.lastUpdated > RATE_CACHE_DURATION
    IN  IF needsFresh /\ ~isUnsupportedNetwork(p)
        THEN fetchRates(h, p, FALSE, t)
        ELSE IF isUnsupportedNetwork(p) /\ h.rates.chainId # effectiveChainId
        THEN [h EXCEPT !.rates = DefaultRecord(effectiveChainId,
                                               nativeTokenInfo(effectiveChainId), t)]
        ELSE h

\* The dependencies of that effect that this model can change.
EffectDeps(h, p) ==
    <<getEffectiveChainId(p), isUnsupportedNetwork(p), h.rates.chainId, h.rates.lastUpdated>>

\* The render that follows a state or argument change, with the effect it runs.
Render(h0, p0, h1, p1, t) ==
    IF EffectDeps(h1, p1) # EffectDeps(h0, p0) THEN ChainEffect(h1, p1, t) ELSE h1

\* The catch of fetchRates: the persisted entry of the captured key, else the default.
FallbackRates(f, store, t) ==
    LET parsed == store[CACHE_KEYS_RATES(f.effectiveChainId)]
    IN  IF parsed # NoEntry /\ parsed # Unparseable /\ parsed.lastUpdated # 0
        THEN parsed
        ELSE DefaultRecord(f.effectiveChainId, f.nativeTokenInfo, t)

\* The catch of fetchRates without its finally.
fetchRatesCatchNoFinally(h, f, store, errorMessage, t) ==
    [h EXCEPT !.rates = FallbackRates(f, store, t),
              !.error = errorMessage,
              !.fetches = @ (-) SetToBag({f})]

\* The catch and the finally of fetchRates, for the refresh f.
fetchRatesCatch(h, f, store, errorMessage, t) ==
    [h EXCEPT !.rates = FallbackRates(f, store, t),
              !.error = errorMessage,
              !.loading = FALSE,
              !.fetches = @ (-) SetToBag({f})]

\* What the first render leaves: the initial state and the effect's first run.
Mounted(store, p, t) ==
    ChainEffect([rates |-> InitialRates(store, p, t), loading |-> FALSE,
                 error |-> "null", fetches |-> EmptyBag], p, t)

\* The clock at the first render, and the ages of the entries persisted by then.
StartTime == STALE_CACHE_DURATION + 2 * RATE_CACHE_DURATION
PersistedAges == {0, 2 * RATE_CACHE_DURATION, STALE_CACHE_DURATION}

\* The caller renders the hook with other arguments.
Rerender(p) ==
    /\ p # props
    /\ props' = p
    /\ rc' = Render(rc, props, rc, p, now)
    /\ BagCardinality(rc'.fetches) <= MaxFetches
    /\ UNCHANGED <<storage, now>>
    /\ UNCHANGED <<walletVars, sessionVars, opVars>>

TimePasses ==
    /\ now < StartTime + MaxTicks * RATE_CACHE_DURATION
    /\ now' = now + RATE_CACHE_DURATION
    /\ UNCHANGED <<props, rc, storage>>
    /\ UNCHANGED <<walletVars, sessionVars, opVars>>

\* The auto-refresh interval's callback.
IntervalFires ==
    /\ ~isUnsupportedNetwork(props)
    /\ ~rc.loading
    /\ rc' = Render(rc, props, fetchRates(rc, props, FALSE, now), props, now)
    /\ BagCardinality(rc'.fetches) <= MaxFetches
    /\ UNCHANGED <<props, storage, now>>
    /\ UNCHANGED <<walletVars, sessionVars, opVars>>

refreshRates ==
    /\ rc' = Render(rc, props, fetchRates(rc, props, TRUE, now), props, now)
    /\ BagCardinality(rc'.fetches) <= MaxFetches
    /\ UNCHANGED <<props, storage, now>>
    /\ UNCHANGED <<walletVars, sessionVars, opVars>>

\* A setItem that stores nothing.
setItemDropped(store, key, value) == store

\* localStorage.setItem(key, JSON.stringify(value))
setItem(store, key, value) == [store EXCEPT ![key] = value]

AttemptSucceeds(f, response) ==
    /\ BagIn(f, rc.fetches)
    /\ AttemptError(response) = "none"
    /\ LET newRates == NewRates(f, response, now)
       IN  /\ storage' = setItem(storage, CACHE_KEYS_RATES(f.effectiveChainId), newRates)
           /\ rc' = Render(rc, props,
                           [rc EXCEPT !.rates = newRates, !.error = "null",
                                      !.loading = FALSE,
                                      !.fetches = @ (-) SetToBag({f})],
                           props, now)
    /\ BagCardinality(rc'.fetches) <= MaxFetches
    /\ UNCHANGED <<props, now>>
    /\ UNCHANGED <<walletVars, sessionVars, opVars>>

\* A failed attempt that is always followed by another one.
AttemptFailsRetryAgain(f, response) ==
    /\ BagIn(f, rc.fetches)
    /\ AttemptError(response) # "none"
    /\ rc' = [rc EXCEPT !.fetches =
                (@ (-) SetToBag({f})) (+)
                SetToBag({[f EXCEPT !.retryCount = @ + 1,
                                    !.delay = RETRY_DELAY * (f.retryCount + 1)]})]
    /\ UNCHANGED <<props, storage, now>>
    /\ UNCHANGED <<walletVars, sessionVars, opVars>>

AttemptFailsRetry(f, response) ==
    /\ BagIn(f, rc.fetches)
    /\ AttemptError(response) # "none"
    /\ f.retryCount < MAX_RETRIES
    /\ rc' = [rc EXCEPT !.fetches =
                (@ (-) SetToBag({f})) (+)
                SetToBag({[f EXCEPT !.retryCount = @ + 1,
                                    !.delay = RETRY_DELAY * (f.retryCount + 1)]})]
    /\ UNCHANGED <<props, storage, now>>
    /\ UNCHANGED <<walletVars, sessionVars, opVars>>

AllAttemptsFailed(f, response) ==
    /\ BagIn(f, rc.fetches)
    /\ AttemptError(response) # "none"
    /\ f.retryCount >= MAX_RETRIES
    /\ rc' = Render(rc, props,
                    fetchRatesCatch(rc, f, storage, AttemptError(response), now),
                    props, now)
    /\ BagCardinality(rc'.fetches) <= MaxFetches
    /\ UNCHANGED <<props, storage, now>>
    /\ UNCHANGED <<walletVars, sessionVars, opVars>>

\* An entry persisted by an earlier session's successful attempt.
Persisted(chainId, age) ==
    NewRates([effectiveChainId |-> chainId, nativeTokenInfo |-> nativeTokenInfo(chainId),
              retryCount |-> 0, delay |-> 0],
             [kind |-> "json", tether |-> TRUE, nativeUsd |-> 25],
             StartTime - age)

NoStorage == [key \in RateKeys |-> NoEntry]

\* What an earlier session left: nothing, or the entry of one chain.  Nothing is
\* ever persisted for a chain whose refresh does not fetch.
Storages ==
    {NoStorage} \cup
    {[NoStorage EXCEPT ![CACHE_KEYS_RATES(c)] = Persisted(c, age)] :
        c \in SUPPORTED_CHAINS, age \in PersistedAges}

(***************************************************************************)
(* The system.                                                             *)

(***************************************************************************)
(* convertPrice and formatPrice of useCurrencyConverter.  A number is NaN, *)
(* an infinity, or an exact fraction num/den in lowest terms (the rounding *)
(* of floating point is left out).                                         *)
(***************************************************************************)
RECURSIVE GCD(_, _)
GCD(a, b) == IF b = 0 THEN a ELSE GCD(b, a % b)
Abs(n) == IF n < 0 THEN -n ELSE n

Fraction(n, d) ==
    LET g == GCD(Abs(n), Abs(d))
        sign == IF d < 0 THEN -1 ELSE 1
    IN  [kind |-> "finite", num |-> sign * (n \div g), den |-> sign * (d \div g)]
Zero == [kind |-> "finite", num |-> 0, den |-> 1]
NaN == [kind |-> "NaN", num |-> 0, den |-> 1]
Infinity == [kind |-> "Infinity", num |-> 1, den |-> 1]
MinusInfinity == [kind |-> "Infinity", num |-> -1, den |-> 1]

isFinite(price) == price.kind = "finite"

\* price * n/d and price / (n/d), for a ratio n/d > 0
Times(price, n, d) ==
    IF isFinite(price) THEN Fraction(price.num * n, price.den * d) ELSE price
DividedBy(price, n, d) == Times(price, d, n)

\* The currencies convertPrice is called with: Currency, and "CELO", which the
\* provider and the wallet modal pass.
Currencies == {"USDT", "NATIVE", "FIAT", "CELO"}

\* A conversion that tests nothing first and answers 0 for a pair it does not know.
convertPriceUnguarded(rates, price, from, to) ==
    CASE from = "USDT" /\ to = "NATIVE" ->
            Times(price, rates.USDT_NATIVE[1], rates.USDT_NATIVE[2])
      [] from = "USDT" /\ to = "FIAT" -> Times(price, rates.USDT_FIAT, 1)
      [] from = "NATIVE" /\ to = "USDT" ->
            IF rates.USDT_NATIVE[1] > 0
            THEN DividedBy(price, rates.USDT_NATIVE[1], rates.USDT_NATIVE[2]) ELSE Zero
      [] from = "NATIVE" /\ to = "FIAT" -> Times(price, rates.NATIVE_FIAT, 1)
      [] from = "FIAT" /\ to = "USDT" ->
            IF rates.USDT_FIAT > 0 THEN DividedBy(price, rates.USDT_FIAT, 1) ELSE Zero
      [] from = "FIAT" /\ to = "NATIVE" ->
            IF rates.NATIVE_FIAT > 0 THEN DividedBy(price, rates.NATIVE_FIAT, 1) ELSE Zero
      [] OTHER -> Zero

\* convertPrice(price, from, to) under the hook's rates.
convertPrice(rates, price, from, to) ==
    IF from = to \/ ~isFinite(price) \/ price = Zero THEN price
    ELSE CASE from = "USDT" /\ to = "NATIVE" ->
                Times(price, rates.USDT_NATIVE[1], rates.USDT_NATIVE[2])
          [] from = "USDT" /\ to = "FIAT" -> Times(price, rates.USDT_FIAT, 1)
          [] from = "NATIVE" /\ to = "USDT" ->
                IF rates.USDT_NATIVE[1] > 0
                THEN DividedBy(price, rates.USDT_NATIVE[1], rates.USDT_NATIVE[2]) ELSE Zero
          [] from = "NATIVE" /\ to = "FIAT" -> Times(price, rates.NATIVE_FIAT, 1)
          [] from = "FIAT" /\ to = "USDT" ->
                IF rates.USDT_FIAT > 0 THEN DividedBy(price, rates.USDT_FIAT, 1) ELSE Zero
          [] from = "FIAT" /\ to = "NATIVE" ->
                IF rates.NATIVE_FIAT > 0 THEN DividedBy(price, rates.NATIVE_FIAT, 1)
                ELSE Zero
          [] OTHER -> price

\* formatPrice(price, currency): the number with the unit it is shown in; the
\* fiat unit is the user's currency.
USER_CURRENCY == "USD"
formatPrice(rates, price, currency) ==
    IF ~isFinite(price) THEN [number |-> NaN, unit |-> "-"]
    ELSE CASE currency = "USDT" -> [number |-> price, unit |-> "$"]
           [] currency = "NATIVE" -> [number |-> price, unit |-> rates.nativeTokenSymbol]
           [] OTHER -> [number |-> price, unit |-> <<"fiat", USER_CURRENCY>>]

\* The prices convertPrice is called with.
Prices ==
    {NaN, Infinity, MinusInfinity, Zero, Fraction(7, 1), Fraction(1, 2), Fraction(-3, 1)}

NoConversion == [called |-> FALSE, price |-> Zero, from |-> "", to |-> "", result |-> Zero]

\* A consumer of the hook calls convertPrice.
ConvertPriceCall(price, from, to) ==
    /\ cv' = [called |-> TRUE, price |-> price, from |-> from, to |-> to,
              result |-> convertPrice(rc.rates, price, from, to)]
    /\ UNCHANGED <<walletVars, rateVars, sessionVars, mounted, calls, submitted, ap, allowance>>

(***************************************************************************)
(* The wallet session in full (Web3Provider): the connect handshake        *)
(* (useConnect), the network switch request (useSwitchChain), the reads    *)
(* behind the balances (useBalance, useReadContract) and the whole wallet  *)
(* snapshot the effect builds from them.  A query's data belongs to its    *)
(* key, the arguments of the read: when the address or the chain changes   *)
(* the hook observes another key, and the data of the previous key is no   *)
(* longer returned.                                                        *)
(***************************************************************************)
(* buyTrade called again while a call is in flight.  The provider holds no *)
(* state about calls: each call is its own closure, suspended at its       *)
(* awaits, and any of them may be the next to resume.  Requests of the     *)
(* same-chain path; `submitted` lists the calls of writeContractAsync.     *)
(***************************************************************************)
MaxCalls == 2
MaxSubmitted == 2

Invocations == 1..MaxCalls
NoCalls == [i \in Invocations |-> [b |-> Idle, overlapped |-> FALSE]]
InFlightCalls == {i \in Invocations : calls[i].b.pc \notin {"idle", "done"}}
LocalRequests ==
    {r \in Requests : isLocalPurchase(r) /\ r.quantity.num /\ ValidAddress(r.logisticsProvider)}

\* A call that first looks for a call in flight or a submitted write with its request.
InvokedOnce(params) ==
    LET b0 == [Idle EXCEPT !.params = params, !.status = "running",
                           !.snap = [address |-> address, chain |-> chain,
                                     refresh |-> RefreshClosure]]
    IN  IF \/ \E j \in InFlightCalls : calls[j].b.params = params
           \/ \E n \in 1..Len(submitted) : submitted[n].params = params
        THEN [b0 EXCEPT !.pc = "done", !.status = "returned"]
        ELSE [b0 EXCEPT !.pc = "getTrade", !.reads = @ + 1]

\* buyTrade up to its first await, as the call record it leaves.
Invoked(params) ==
    LET b0 == [Idle EXCEPT !.params = params, !.status = "running",
                           !.snap = [address |-> address, chain |-> chain,
                                     refresh |-> RefreshClosure]]
        pre == PreconditionError(address, chain, escrowContractAddress, usdtContractAddress)
        b0try == [b0 EXCEPT !.pc = "validate"]
    IN  IF pre # ""
            THEN [b0 EXCEPT !.pc = "done", !.status = "thrown", !.failedAt = "precondition",
                            !.raw = pre, !.error = pre]
        ELSE IF ~params.tradeId.num \/ ~params.quantity.num
            THEN Thrown(b0try, "Cannot convert abc to a BigInt")
        ELSE IF ~ValidAddress(params.logisticsProvider)
            THEN Thrown(b0try, "Invalid logistics provider address")
        ELSE [b0 EXCEPT !.pc = "getTrade", !.reads = @ + 1]

Invoke(i, params) ==
    /\ calls[i].b.pc = "idle"
    /\ calls' = [calls EXCEPT ![i] = [b |-> Invoked(params),
                                      overlapped |-> InFlightCalls # {}]]
    /\ UNCHANGED <<walletVars, rateVars, sessionVars, cv, mounted, submitted, ap, allowance>>

\* The trades read of call i resolves: amounts, then simulateContract.
TradeReadReturns(i, productCost) ==
    /\ calls[i].b.pc = "getTrade"
    /\ LET b == calls[i].b
       IN  calls' = [calls EXCEPT ![i].b =
                        Simulate([b EXCEPT !.productCost = productCost,
                                           !.amount = TotalCost(productCost,
                                                                b.params.quantity.val)])]
    /\ UNCHANGED <<walletVars, rateVars, sessionVars, cv, mounted, submitted, ap, allowance>>

TradeReadFails(i, raw) ==
    /\ calls[i].b.pc = "getTrade"
    /\ calls' = [calls EXCEPT ![i].b = Thrown(@, GetTradeError(raw))]
    /\ UNCHANGED <<walletVars, rateVars, sessionVars, cv, mounted, submitted, ap, allowance>>

\* The simulation of call i ends, with an estimate (gas) or by throwing:
\* writeContractAsync is called.
SimulationEnds(i, returned, gas) ==
    /\ calls[i].b.pc = "simulate"
    /\ Len(submitted) < MaxSubmitted
    /\ LET b == calls[i].b
           local == isLocalPurchase(b.params)
           written == IF returned
                      THEN Write([b EXCEPT !.simulated = "returned", !.requestGas = gas,
                                           !.gas = GasLimit(local, gas)])
                      ELSE Write([b EXCEPT !.simulated = "threw", !.gas = FallbackGas(local)])
       IN  /\ calls' = [calls EXCEPT ![i].b = written]
           /\ submitted' = Append(submitted, [call |-> i, params |-> b.params,
                                              write |-> written.write])
    /\ UNCHANGED <<walletVars, rateVars, sessionVars, cv, mounted, ap, allowance>>

\* The write of call i resolves with a hash: the receipt wait starts.
WriteResolves(i, hash) ==
    /\ calls[i].b.pc = "write"
    /\ calls' = [calls EXCEPT ![i].b =
                    IF hash = "" THEN Thrown(@, "Transaction failed to execute")
                    ELSE [@ EXCEPT !.pc = "wait", !.hash = hash]]
    /\ UNCHANGED <<walletVars, rateVars, sessionVars, cv, mounted, submitted, ap, allowance>>

WriteRejects(i, raw) ==
    /\ calls[i].b.pc = "write"
    /\ calls' = [calls EXCEPT ![i].b = Thrown(@, raw)]
    /\ UNCHANGED <<walletVars, rateVars, sessionVars, cv, mounted, submitted, ap, allowance>>

\* The receipt wait of call i resolves: the delayed refresh is scheduled and
\* the call returns its transaction.
ReceiptArrives(i, receiptStatus, logs, usdtDecimals, reason) ==
    /\ calls[i].b.pc = "wait"
    /\ LET b == calls[i].b
           local == isLocalPurchase(b.params)
           decodedLogs == DecodedLogs(logs)
           decimals == IF usdtDecimals = 0 THEN 6 ELSE usdtDecimals
       IN  IF ReceiptResult(receiptStatus) = "throws"
           THEN /\ calls' = [calls EXCEPT ![i].b =
                                Thrown([b EXCEPT !.receiptStatus = receiptStatus], reason)]
                /\ UNCHANGED timers
           ELSE /\ PendingTimers < MaxTimers
                /\ timers' = [timers EXCEPT ![b.snap.refresh] = @ + 1]
                /\ calls' = [calls EXCEPT ![i].b =
                     [b EXCEPT
                        !.pc = "done", !.status = "returned", !.scheduled = @ + 1,
                        !.delay = RefreshDelay(local),
                        !.receiptStatus = receiptStatus, !.logs = logs,
                        !.tx = [hash |-> b.hash,
                                amount |-> formatUnits(b.amount, decimals),
                                token |-> "USDT",
                                to |-> ESCROW_ADDRESSES(b.snap.chain),
                                from |-> b.snap.address,
                                status |-> TransactionStatus(TRUE),
                                purchaseId |-> PurchaseIdOf(decodedLogs),
                                messageId |-> MessageIdOf(decodedLogs, local),
                                crossChain |-> ~local]]]
    /\ UNCHANGED <<address, chain, env, wallet, isRefreshing, inFlight, bt, sp, sc,
                   rateVars, sessionVars, cv, mounted, submitted, ap, allowance>>

ReceiptWaitTimesOut(i) ==
    /\ calls[i].b.pc = "wait"
    /\ calls' = [calls EXCEPT ![i].b = Thrown(@, TimeoutMessage)]
    /\ UNCHANGED <<walletVars, rateVars, sessionVars, cv, mounted, submitted, ap, allowance>>

\* The caller's await of call i settles.
CallSettled(i) ==
    /\ calls[i].b.pc = "done"
    /\ calls' = [calls EXCEPT ![i] = NoCalls[i]]
    /\ UNCHANGED <<walletVars, rateVars, sessionVars, cv, mounted, submitted, ap, allowance>>

(***************************************************************************)
(* approveUSDT.  Amounts are kept in the token's smallest unit;            *)
(* maxApproval stands for 2^256 - 1, which no requested amount reaches.    *)
(* refetchAllowance resolves with the query's result and does not throw: a *)
(* failed read leaves in result.data what the cache held.                  *)
(***************************************************************************)
maxApproval == 2147483647
MaxApprovals == 2

AllowancesOnChain == {0, 3000000}
ApproveAmounts == {NumStr(1), NumStr(5), NotANumber}
ApproveWriteFailures == {"User rejected the request.", "execution reverted"}

NoAllowanceData == [defined |-> FALSE, value |-> 0]
AllowanceData(value) == [defined |-> TRUE, value |-> value]

NoAllowance == [onChain |-> 0, cached |-> NoAllowanceData, pending |-> 0, confirmed |-> FALSE,
                approvals |-> 0, refetches |-> 0]

ApproveIdle ==
    [pc |-> "idle", status |-> "idle", amount |-> NotANumber,
     snap |-> [address |-> NoAddress, chain |-> NoChain, decimals |-> 0],
     later |-> FALSE, currentAllowance |-> 0,
     write |-> NoCall, writes |-> 0, hash |-> "", error |-> ""]

ApproveThrown(a, message) == [a EXCEPT !.pc = "done", !.status = "thrown", !.error = message]

\* getCurrentAllowance after its refetch: result.data scaled by the decimals
\* of the render, or 0 when there is no data or the decimals are not loaded.
\* The value is kept in the smallest unit.
getCurrentAllowance(data, usdtDecimals) ==
    IF data.defined /\ data.value # 0 /\ usdtDecimals # 0 THEN data.value ELSE 0

\* currentAllowance >= parseFloat(amount), false for an amount that is no number;
\* without decimals the allowance is 0 and the scale does not matter.
Covers(currentAllowance, amount, usdtDecimals) ==
    /\ amount.num
    /\ currentAllowance >= amount.val * 10^usdtDecimals

\* From the result of refetchAllowance to the return of the sentinel or to
\* the await of the approve write.
AfterAllowance(a, data) ==
    LET current == getCurrentAllowance(data, a.snap.decimals)
    IN  IF Covers(current, a.amount, a.snap.decimals)
        THEN [a EXCEPT !.pc = "done", !.status = "returned", !.hash = "0x0",
                       !.currentAllowance = current]
        ELSE [a EXCEPT !.pc = "write", !.writes = @ + 1, !.currentAllowance = current,
                       !.write = [functionName |-> "approve", address |-> USDT_ADDRESSES(a.snap.chain),
                                  args |-> <<ESCROW_ADDRESSES(a.snap.chain), maxApproval>>,
                                  gas |-> GAS_LIMITS("APPROVE")]]

\* approveUSDT is called from the current render: up to the await of the refetch.
ApproveUSDT(amount, usdtDecimals) ==
    /\ ap.pc = "idle"
    /\ allowance.approvals + allowance.pending < MaxApprovals
    /\ LET a0 == [ApproveIdle EXCEPT
                    !.amount = amount, !.status = "running", !.later = allowance.confirmed,
                    !.snap = [address |-> address, chain |-> chain, decimals |-> usdtDecimals]]
       IN  ap' = IF address = NoAddress \/ chain = NoChain
                     THEN ApproveThrown(a0, "Wallet not connected")
                 ELSE IF usdtContractAddress = <<>> \/ escrowContractAddress = <<>>
                     THEN ApproveThrown(a0, "Contracts not available on this network")
                 ELSE [a0 EXCEPT !.pc = "read"]
    /\ UNCHANGED <<walletVars, rateVars, sessionVars, cv, mounted, calls, submitted, allowance>>

\* The allowance read resolves with the value on chain.
AllowanceReadReturns ==
    /\ ap.pc = "read"
    /\ allowance' = [allowance EXCEPT !.cached = AllowanceData(allowance.onChain)]
    /\ ap' = AfterAllowance(ap, allowance'.cached)
    /\ UNCHANGED <<walletVars, rateVars, sessionVars, cv, mounted, calls, submitted>>

\* The allowance read fails: the result carries the data of the cache.
AllowanceReadFails ==
    /\ ap.pc = "read"
    /\ ap' = AfterAllowance(ap, allowance.cached)
    /\ UNCHANGED <<walletVars, rateVars, sessionVars, cv, mounted, calls, submitted, allowance>>

\* The approve write resolves: the delayed refetch is scheduled, the hash returned.
ApproveWriteReturns(hash) ==
    /\ ap.pc = "write"
    /\ allowance' = [allowance EXCEPT !.pending = @ + 1, !.refetches = @ + 1]
    /\ ap' = [ap EXCEPT !.pc = "done", !.status = "returned", !.hash = hash]
    /\ UNCHANGED <<walletVars, rateVars, sessionVars, cv, mounted, calls, submitted>>

\* The approve write rejects: the catch rethrows with its own message.
ApproveWriteFails(raw) ==
    /\ ap.pc = "write"
    /\ ap' = ApproveThrown(ap,
                IF Includes(raw, "User rejected") THEN "Approval was rejected by user"
                ELSE IF Includes(raw, "insufficient funds") THEN "Insufficient AVAX for gas fees"
                ELSE "Approval failed")
    /\ UNCHANGED <<walletVars, rateVars, sessionVars, cv, mounted, calls, submitted, allowance>>

\* An approve transaction is confirmed on chain.
ApprovalConfirmed ==
    /\ allowance.pending > 0
    /\ allowance' = [allowance EXCEPT !.pending = @ - 1, !.approvals = @ + 1,
                                      !.onChain = maxApproval, !.confirmed = TRUE]
    /\ UNCHANGED <<walletVars, rateVars, sessionVars, cv, mounted, calls, submitted, ap>>

\* The refetch scheduled two seconds after an approve write reads the allowance.
DelayedRefetch(ok) ==
    /\ allowance.refetches > 0
    /\ allowance' = [allowance EXCEPT !.refetches = @ - 1,
                                      !.cached = IF ok THEN AllowanceData(allowance.onChain)
                                                 ELSE @]
    /\ UNCHANGED <<walletVars, rateVars, sessionVars, cv, mounted, calls, submitted, ap>>

\* The caller's await of approveUSDT settles.
ApproveSettled ==
    /\ ap.pc = "done"
    /\ ap' = ApproveIdle
    /\ UNCHANGED <<walletVars, rateVars, sessionVars, cv, mounted, calls, submitted, allowance>>

(***************************************************************************)
(* Teardown of the component that renders useCurrencyConverter.  The only  *)
(* cleanup the hook registers is clearInterval of the auto-refresh.  React *)
(* runs no effect of an unmounted component and drops its state updates;   *)
(* the closure of a refresh in flight goes on: its request, its retry      *)
(* delays and its write to localStorage.                                   *)
(***************************************************************************)
Unmount ==
    /\ mounted
    /\ mounted' = FALSE
    /\ UNCHANGED <<walletVars, rateVars, sessionVars, cv, calls, submitted, ap, allowance>>

\* An attempt of a refresh goes through after the teardown: saveCachedRates
\* stores the new rates; setRates, setError and setLoading are dropped.
SucceedsAfterTeardown(f, response) ==
    /\ ~mounted
    /\ BagIn(f, rc.fetches)
    /\ AttemptError(response) = "none"
    /\ storage' = setItem(storage, CACHE_KEYS_RATES(f.effectiveChainId),
                          NewRates(f, response, now))
    /\ rc' = [rc EXCEPT !.fetches = @ (-) SetToBag({f})]
    /\ UNCHANGED <<props, now>>
    /\ UNCHANGED <<walletVars, sessionVars, opVars>>

\* The last attempt of a refresh fails after the teardown: the state updates
\* of the catch and of the finally are dropped.
FailsAfterTeardown(f, response) ==
    /\ ~mounted
    /\ BagIn(f, rc.fetches)
    /\ AttemptError(response) # "none"
    /\ f.retryCount >= MAX_RETRIES
    /\ rc' = [rc EXCEPT !.fetches = @ (-) SetToBag({f})]
    /\ UNCHANGED <<props, storage, now>>
    /\ UNCHANGED <<walletVars, sessionVars, opVars>>

(***************************************************************************)
SessionAddresses == Addresses \cup {"0xB0B"}

\* useConnect() before any connect call.
NotConnecting == [isPending |-> FALSE, error |-> "null"]
ConnectFailures == {"User rejected the request.", "Provider not found."}

\* showSnackbar(message, severity)
NoSnackbar == [message |-> "", severity |-> ""]
ShowSnackbar(message, severity) == [message |-> message, severity |-> severity]

\* A query of the cache: not fetched yet, being fetched, failed, or holding data.
NoData == [defined |-> FALSE]
NotFetched == [state |-> "idle", data |-> NoData]
Fetching == [state |-> "fetching", data |-> NoData]
ReadFailed == [state |-> "error", data |-> NoData]
Fetched(data) == [state |-> "success", data |-> data]

\* balanceOf(owner) read on chainId, in token units.
TokenBalances == {0, 7}
BalanceOf(owner, chainId, value) == [owner |-> owner, chainId |-> chainId, value |-> value]
\* The native balance of owner on chainId.
NativeBalance(owner, chainId) == [owner |-> owner, chainId |-> chainId]
\* decimals() of the token contract.
TOKEN_DECIMALS == 6

QueryKeys == SessionAddresses \X SUPPORTED_CHAINS
EmptyCache ==
    [usdt |-> [k \in QueryKeys |-> NotFetched],
     avax |-> [k \in QueryKeys |-> NotFetched],
     decimals |-> [c \in SUPPORTED_CHAINS |-> NotFetched]]

\* usdtContractAddress of a render with address a and chain c.
UsdtContractOf(a, c) ==
    IF a = NoAddress \/ c = NoChain THEN <<>> ELSE USDT_ADDRESSES(c)

\* enabled: !!address && !!usdtContractAddress && isCorrectNetwork
UsdtReadEnabled(a, c) == a # NoAddress /\ UsdtContractOf(a, c) # <<>> /\ c = TARGET_CHAIN

\* enabled: !!usdtContractAddress && isCorrectNetwork
DecimalsReadEnabled(a, c) == UsdtContractOf(a, c) # <<>> /\ c = TARGET_CHAIN

\* enabled: !!address && isCorrectNetwork
BalanceReadEnabled(a, c) == a # NoAddress /\ c = TARGET_CHAIN

\* The balanceOf query observed by a render with address a and chain c.
UsdtQuery(q, a, c) ==
    IF UsdtContractOf(a, c) # <<>> THEN q.usdt[<<a, c>>] ELSE NotFetched

\* usdtDecimals of that render.
DecimalsOf(q, a, c) ==
    IF UsdtContractOf(a, c) # <<>> THEN q.decimals[c] ELSE NotFetched

\* avaxBalance of that render.
AvaxBalanceOf(q, a, c) ==
    IF a # NoAddress /\ c # NoChain THEN q.avax[<<a, c>>] ELSE NotFetched

\* The lenses of a balance read: formatUnits(usdtBalance, decimals) as a number,
\* shown in USDT, and through convertPrice and formatPrice as "CELO" and as FIAT.
Lenses(rates, data, decimals) ==
    LET numericBalance == Fraction(data.value, 10^decimals)
    IN  [raw |-> data,
         decimals |-> decimals,
         usdt |-> [number |-> numericBalance, unit |-> "USDT"],
         celo |-> formatPrice(rates, convertPrice(rates, numericBalance, "USDT", "CELO"),
                              "CELO"),
         fiat |-> formatPrice(rates, convertPrice(rates, numericBalance, "USDT", "FIAT"),
                              "FIAT")]

\* convertedUSDTBalances without the test of usdtDecimals.
convertedUSDTBalancesAnyDecimals(q, a, c) ==
    LET usdt == UsdtQuery(q, a, c)
    IN  IF usdt.state # "success" THEN NoData
        ELSE IF usdt.data.value = 0 THEN NoData
        ELSE Lenses(rc.rates, usdt.data, TOKEN_DECIMALS)

\* convertedUSDTBalances: if (!usdtBalance || usdtError || usdtDecimals === undefined)
convertedUSDTBalances(q, a, c) ==
    LET usdt == UsdtQuery(q, a, c)
        usdtDecimals == DecimalsOf(q, a, c)
    IN  IF usdt.state # "success" \/ usdtDecimals.state # "success" THEN NoData
        ELSE IF usdt.data.value = 0 THEN NoData
        ELSE Lenses(rc.rates, usdt.data, usdtDecimals.data)

\* useConnect() after the handshake failed.
ConnectFailed(message) == [isPending |-> FALSE, error |-> message]

\* The snapshot with the error of the balance read only.
ExtendedWalletStateReadErrorOnly(a, c, conn, q) ==
    [isConnected |-> a # NoAddress,
     address |-> a,
     chainId |-> c,
     balance |-> AvaxBalanceOf(q, a, c).data,
     error |-> IF UsdtQuery(q, a, c).state = "error" THEN "read failed" ELSE "undefined",
     isConnecting |-> conn.isPending \/ UsdtQuery(q, a, c).state = "fetching",
     usdtBalance |-> convertedUSDTBalances(q, a, c)]

\* The effect "Update wallet state": every field of the snapshot.
ExtendedWalletState(a, c, conn, q) ==
    [isConnected |-> a # NoAddress,
     address |-> a,
     chainId |-> c,
     balance |-> AvaxBalanceOf(q, a, c).data,
     error |-> IF conn.error # "null" THEN conn.error
               ELSE IF UsdtQuery(q, a, c).state = "error" THEN "read failed"
               ELSE "undefined",
     isConnecting |-> conn.isPending \/ UsdtQuery(q, a, c).state = "fetching",
     usdtBalance |-> convertedUSDTBalances(q, a, c)]

\* connectWallet: connect({connector}) starts the handshake and returns.
connectWallet ==
    /\ address = NoAddress
    /\ ~connection.isPending
    /\ connection' = [isPending |-> TRUE, error |-> "null"]
    /\ wallet' = ExtendedWalletState(address, chain, connection', queries)
    /\ UNCHANGED <<address, chain, env, isRefreshing, inFlight, timers, bt, sp, sc, rateVars, opVars,
                   switchRequest, queries, snackbar>>

\* The wallet accepts the handshake with account a on chain c.
ConnectSucceeds(a, c) ==
    /\ connection.isPending
    /\ address = NoAddress
    /\ address' = a
    /\ chain' = c
    /\ connection' = NotConnecting
    /\ wallet' = ExtendedWalletState(a, c, connection', queries)
    /\ UNCHANGED <<env, isRefreshing, inFlight, timers, bt, sp, sc, rateVars, opVars,
                   switchRequest, queries, snackbar>>

\* The handshake is rejected by the user, or fails.
ConnectFails(message) ==
    /\ connection.isPending
    /\ address = NoAddress
    /\ connection' = ConnectFailed(message)
    /\ wallet' = ExtendedWalletState(address, chain, connection', queries)
    /\ UNCHANGED <<address, chain, env, isRefreshing, inFlight, timers, bt, sp, sc, rateVars, opVars,
                   switchRequest, queries, snackbar>>

\* disconnectWallet in whatever state the session is: disconnect(), then the snackbar.
disconnect ==
    /\ address' = NoAddress
    /\ chain' = NoChain
    /\ snackbar' = ShowSnackbar("Wallet disconnected", "success")
    /\ wallet' = ExtendedWalletState(NoAddress, NoChain, connection, queries)
    /\ UNCHANGED <<env, isRefreshing, inFlight, timers, bt, sp, sc, rateVars, opVars,
                   connection, switchRequest, queries>>

\* The wallet changes chain (chainChanged), on the user's initiative.
chainChanged(c) ==
    /\ address # NoAddress
    /\ c # chain
    /\ chain' = c
    /\ wallet' = ExtendedWalletState(address, c, connection, queries)
    /\ UNCHANGED <<address, env, isRefreshing, inFlight, timers, bt, sp, sc, rateVars, opVars,
                   connection, switchRequest, queries, snackbar>>

\* The wallet changes account (accountsChanged).
accountsChanged(a) ==
    /\ address # NoAddress
    /\ a # address
    /\ address' = a
    /\ wallet' = ExtendedWalletState(a, chain, connection, queries)
    /\ UNCHANGED <<chain, env, isRefreshing, inFlight, timers, bt, sp, sc, rateVars, opVars,
                   connection, switchRequest, queries, snackbar>>

\* switchToCorrectNetwork: switchChain(...) hands the request to the wallet and
\* returns; the await resolves at once and the success snackbar is shown.
switchToCorrectNetwork ==
    /\ address # NoAddress
    /\ chain # TARGET_CHAIN
    /\ ~switchRequest
    /\ switchRequest' = TRUE
    /\ snackbar' = ShowSnackbar("Switched to Avalanche Fuji", "success")
    /\ UNCHANGED <<address, chain, env, wallet, isRefreshing, inFlight, timers, bt, sp, sc,
                   rateVars, opVars, connection, queries>>

\* The user approves the switch request: the wallet moves to the target chain.
SwitchApproved ==
    /\ switchRequest
    /\ address # NoAddress
    /\ switchRequest' = FALSE
    /\ chain' = TARGET_CHAIN
    /\ wallet' = ExtendedWalletState(address, TARGET_CHAIN, connection, queries)
    /\ UNCHANGED <<address, env, isRefreshing, inFlight, timers, bt, sp, sc, rateVars, opVars,
                   connection, queries, snackbar>>

\* The user rejects the switch request, or the wallet fails to switch: the
\* error stays in useSwitchChain's state, which the provider does not read.
SwitchRejected ==
    /\ switchRequest
    /\ switchRequest' = FALSE
    /\ UNCHANGED <<address, chain, env, wallet, isRefreshing, inFlight, timers, bt, sp, sc,
                   rateVars, opVars, connection, queries, snackbar>>

\* The balanceOf query fetches when its render enables it and it holds no data.
UsdtQueryFetches ==
    /\ UsdtReadEnabled(address, chain)
    /\ queries.usdt[<<address, chain>>].state = "idle"
    /\ queries' = [queries EXCEPT !.usdt[<<address, chain>>] = Fetching]
    /\ wallet' = ExtendedWalletState(address, chain, connection, queries')
    /\ UNCHANGED <<address, chain, env, isRefreshing, inFlight, timers, bt, sp, sc, rateVars, opVars,
                   connection, switchRequest, snackbar>>

\* getUSDTBalance up to its await: refetchUSDTBalance() fetches the observed
\* query whether or not it is enabled.
getUSDTBalance ==
    /\ UsdtContractOf(address, chain) # <<>>
    /\ queries.usdt[<<address, chain>>].state \in {"idle", "error"}
    /\ queries' = [queries EXCEPT !.usdt[<<address, chain>>] = Fetching]
    /\ wallet' = ExtendedWalletState(address, chain, connection, queries')
    /\ UNCHANGED <<address, chain, env, isRefreshing, inFlight, timers, bt, sp, sc, rateVars, opVars,
                   connection, switchRequest, snackbar>>

\* A balanceOf read answers: its data goes to the query it was started for.
UsdtReadReturns(k, value) ==
    /\ queries.usdt[k].state = "fetching"
    /\ queries' = [queries EXCEPT !.usdt[k] = Fetched(BalanceOf(k[1], k[2], value))]
    /\ wallet' = ExtendedWalletState(address, chain, connection, queries')
    /\ UNCHANGED <<address, chain, env, isRefreshing, inFlight, timers, bt, sp, sc, rateVars, opVars,
                   connection, switchRequest, snackbar>>

UsdtReadFails(k) ==
    /\ queries.usdt[k].state = "fetching"
    /\ queries' = [queries EXCEPT !.usdt[k] = ReadFailed]
    /\ wallet' = ExtendedWalletState(address, chain, connection, queries')
    /\ UNCHANGED <<address, chain, env, isRefreshing, inFlight, timers, bt, sp, sc, rateVars, opVars,
                   connection, switchRequest, snackbar>>

\* The decimals query of the observed contract is read (staleTime: Infinity).
DecimalsRead ==
    /\ DecimalsReadEnabled(address, chain)
    /\ queries.decimals[chain].state = "idle"
    /\ queries' = [queries EXCEPT !.decimals[chain] = Fetched(TOKEN_DECIMALS)]
    /\ wallet' = ExtendedWalletState(address, chain, connection, queries')
    /\ UNCHANGED <<address, chain, env, isRefreshing, inFlight, timers, bt, sp, sc, rateVars, opVars,
                   connection, switchRequest, snackbar>>

\* The native balance of the observed account is read.
AvaxBalanceRead ==
    /\ BalanceReadEnabled(address, chain)
    /\ queries.avax[<<address, chain>>].state = "idle"
    /\ queries' = [queries EXCEPT !.avax[<<address, chain>>] =
                                    Fetched(NativeBalance(address, chain))]
    /\ wallet' = ExtendedWalletState(address, chain, connection, queries')
    /\ UNCHANGED <<address, chain, env, isRefreshing, inFlight, timers, bt, sp, sc, rateVars, opVars,
                   connection, switchRequest, snackbar>>

(***************************************************************************)
Init ==
    /\ address = NoAddress
    /\ chain = NoChain
    /\ env \in Envs
    /\ wallet = WalletSnapshot(NoAddress, NoChain)
    /\ isRefreshing = FALSE
    /\ inFlight = 0
    /\ timers = NoTimers
    /\ bt = Idle
    /\ sp = PaymentIdle
    /\ sc = HookIdle
    /\ connection = NotConnecting
    /\ switchRequest = FALSE
    /\ queries = EmptyCache
    /\ snackbar = NoSnackbar
    /\ cv = NoConversion
    /\ mounted = TRUE
    /\ calls = NoCalls
    /\ submitted = <<>>
    /\ ap = ApproveIdle
    /\ allowance = NoAllowance
    /\ props = NoProps
    /\ storage = NoStorage
    /\ now = StartTime
    /\ rc = Mounted(NoStorage, NoProps, StartTime)

Next ==
    \/ \E a \in Addresses, c \in SUPPORTED_CHAINS \cup {NoChain} : Connect(a, c)
    \/ disconnectWallet
    \/ \E c \in SUPPORTED_CHAINS \cup {NoChain} : ChainChanged(c)
    \/ IntervalTick
    \/ UserRefresh
    \/ \E c \in DOMAIN timers : TimerFire(c)
    \/ RefreshSettled
    \/ \E params \in Requests : BuyTrade(params)
    \/ \E productCost \in UnitCosts : GetTradeReturns(productCost)
    \/ \E raw \in ReadFailures : GetTradeFails(raw)
    \/ \E fees \in FeeEstimates : FeeReturns(fees)
    \/ FeeFails
    \/ \E gas \in GasEstimates : SimulateReturns(gas)
    \/ SimulateFails
    \/ \E hash \in Hashes : WriteReturns(hash)
    \/ \E raw \in WriteFailures : WriteFails(raw)
    \/ \E receiptStatus \in {"success", "reverted"}, logs \in Receipts,
          usdtDecimals \in UsdtDecimals, reason \in RevertReasons :
            ReceiptObtained(receiptStatus, logs, usdtDecimals, reason)
    \/ ReceiptTimesOut
    \/ Settled
    \/ \E params \in PaymentRequests, usdtDecimals \in UsdtDecimals :
            SendPayment(params, usdtDecimals)
    \/ SwitchDelayElapsed
    \/ \E hash \in {"0xh1"} : PaymentWriteReturns(hash)
    \/ \E raw \in WriteFailures : PaymentWriteFails(raw)
    \/ PaymentSettled
    \/ \E call \in HookCalls : HookCall(call)
    \/ HookSwitchDelayElapsed
    \/ \E hash \in {"0xh1"} : HookWriteReturns(hash)
    \/ \E raw \in HookWriteFailures : HookWriteFails(raw)
    \/ HookSettled

Spec == Init /\ [][Next]_vars

\* The rate cache on its own: the wallet side stays as constructed.
RateInit ==
    /\ address = NoAddress
    /\ chain = NoChain
    /\ env = CHOOSE e \in Envs : TRUE
    /\ wallet = WalletSnapshot(NoAddress, NoChain)
    /\ isRefreshing = FALSE
    /\ inFlight = 0
    /\ timers = NoTimers
    /\ bt = Idle
    /\ sp = PaymentIdle
    /\ sc = HookIdle
    /\ connection = NotConnecting
    /\ switchRequest = FALSE
    /\ queries = EmptyCache
    /\ snackbar = NoSnackbar
    /\ cv = NoConversion
    /\ mounted = TRUE
    /\ calls = NoCalls
    /\ submitted = <<>>
    /\ ap = ApproveIdle
    /\ allowance = NoAllowance
    /\ props \in PropsSet
    /\ storage \in Storages
    /\ now = StartTime
    /\ rc = Mounted(storage, props, now)

RateNext ==
    \/ \E p \in PropsSet : Rerender(p)
    \/ TimePasses
    \/ IntervalFires
    \/ refreshRates
    \/ \E f \in Fetches, response \in PriceResponses : AttemptSucceeds(f, response)
    \/ \E f \in Fetches, response \in PriceResponses : AttemptFailsRetry(f, response)
    \/ \E f \in Fetches, response \in PriceResponses : AllAttemptsFailed(f, response)

RateSpec == RateInit /\ [][RateNext]_vars

\* The rate cache started on storage that may also hold a value it cannot parse.
AnyStorageInit ==
    /\ address = NoAddress
    /\ chain = NoChain
    /\ env = CHOOSE e \in Envs : TRUE
    /\ wallet = WalletSnapshot(NoAddress, NoChain)
    /\ isRefreshing = FALSE
    /\ inFlight = 0
    /\ timers = NoTimers
    /\ bt = Idle
    /\ sp = PaymentIdle
    /\ sc = HookIdle
    /\ connection = NotConnecting
    /\ switchRequest = FALSE
    /\ queries = EmptyCache
    /\ snackbar = NoSnackbar
    /\ cv = NoConversion
    /\ mounted = TRUE
    /\ calls = NoCalls
    /\ submitted = <<>>
    /\ ap = ApproveIdle
    /\ allowance = NoAllowance
    /\ props \in PropsSet
    /\ storage \in Storages \cup
            {[NoStorage EXCEPT ![CACHE_KEYS_RATES(c)] = Unparseable] : c \in SUPPORTED_CHAINS}
    /\ now = StartTime
    /\ rc = Mounted(storage, props, now)

RateSpecAnyStorage == AnyStorageInit /\ [][RateNext]_vars

\* The wallet session on its own: no purchase, payment or rate refresh runs.
SessionInit ==
    /\ address = NoAddress
    /\ chain = NoChain
    /\ env \in {e \in Envs : e.escrow = SUPPORTED_CHAINS}   \* the session reads no escrow address
    /\ connection = NotConnecting
    /\ switchRequest = FALSE
    /\ queries = EmptyCache
    /\ snackbar = NoSnackbar
    /\ cv = NoConversion
    /\ mounted = TRUE
    /\ calls = NoCalls
    /\ submitted = <<>>
    /\ ap = ApproveIdle
    /\ allowance = NoAllowance
    /\ wallet = ExtendedWalletState(NoAddress, NoChain, NotConnecting, EmptyCache)
    /\ isRefreshing = FALSE
    /\ inFlight = 0
    /\ timers = NoTimers
    /\ bt = Idle
    /\ sp = PaymentIdle
    /\ sc = HookIdle
    /\ props = NoProps
    /\ storage = NoStorage
    /\ now = StartTime
    /\ rc = Mounted(NoStorage, NoProps, StartTime)

SessionNext ==
    \/ connectWallet
    \/ \E a \in SessionAddresses, c \in SUPPORTED_CHAINS \cup {NoChain} : ConnectSucceeds(a, c)
    \/ \E message \in ConnectFailures : ConnectFails(message)
    \/ disconnect
    \/ \E c \in SUPPORTED_CHAINS \cup {NoChain} : chainChanged(c)
    \/ \E a \in SessionAddresses : accountsChanged(a)
    \/ switchToCorrectNetwork
    \/ SwitchApproved
    \/ SwitchRejected
    \/ UsdtQueryFetches
    \/ getUSDTBalance
    \/ \E k \in QueryKeys, value \in TokenBalances : UsdtReadReturns(k, value)
    \/ \E k \in QueryKeys : UsdtReadFails(k)
    \/ DecimalsRead
    \/ AvaxBalanceRead

SessionSpec == SessionInit /\ [][SessionNext]_vars

\* convertPrice on its own, under the rates a first render leaves.
ConvertInit ==
    /\ address = NoAddress
    /\ chain = NoChain
    /\ env = CHOOSE e \in Envs : TRUE
    /\ wallet = WalletSnapshot(NoAddress, NoChain)
    /\ isRefreshing = FALSE
    /\ inFlight = 0
    /\ timers = NoTimers
    /\ bt = Idle
    /\ sp = PaymentIdle
    /\ sc = HookIdle
    /\ connection = NotConnecting
    /\ switchRequest = FALSE
    /\ queries = EmptyCache
    /\ snackbar = NoSnackbar
    /\ cv = NoConversion
    /\ mounted = TRUE
    /\ calls = NoCalls
    /\ submitted = <<>>
    /\ ap = ApproveIdle
    /\ allowance = NoAllowance
    /\ props \in PropsSet
    /\ storage \in Storages
    /\ now = StartTime
    /\ rc = Mounted(storage, props, now)

ConvertNext ==
    \E price \in Prices, from \in Currencies, to \in Currencies :
        ConvertPriceCall(price, from, to)

ConvertSpec == ConvertInit /\ [][ConvertNext]_vars

\* The refreshes of a first render left to run: nothing else calls the hook.
\* Every attempt ends, by its answer or by the abort of its eight-second timeout,
\* and every retry delay elapses.
RetryNext ==
    \/ \E f \in Fetches, response \in PriceResponses : AttemptSucceeds(f, response)
    \/ \E f \in Fetches, response \in PriceResponses : AttemptFailsRetry(f, response)
    \/ \E f \in Fetches, response \in PriceResponses : AllAttemptsFailed(f, response)

RetrySpec == RateInit /\ [][RetryNext]_vars /\ WF_vars(RetryNext)

\* The rate cache with the teardown of its component.  A mounted component
\* renders, has its interval and is asked to refresh; an attempt that fails
\* with retries left touches the closure of its refresh only.
TeardownNext ==
    \/ Unmount
    \/ mounted /\ \E p \in PropsSet : Rerender(p)
    \/ TimePasses
    \/ mounted /\ IntervalFires
    \/ mounted /\ refreshRates
    \/ mounted /\ \E f \in Fetches, response \in PriceResponses : AttemptSucceeds(f, response)
    \/ \E f \in Fetches, response \in PriceResponses : AttemptFailsRetry(f, response)
    \/ mounted /\ \E f \in Fetches, response \in PriceResponses : AllAttemptsFailed(f, response)
    \/ \E f \in Fetches, response \in PriceResponses : SucceedsAfterTeardown(f, response)
    \/ \E f \in Fetches, response \in PriceResponses : FailsAfterTeardown(f, response)

TeardownSpec == RateInit /\ [][TeardownNext]_vars

\* Calls of buyTrade on a wallet connected to the target chain of a build
\* that has both contracts there.
OverlapInit ==
    /\ address \in Addresses
    /\ chain = TARGET_CHAIN
    /\ env \in {e \in Envs : TARGET_CHAIN \in e.escrow /\ TARGET_CHAIN \in e.usdt}
    /\ wallet = WalletSnapshot(address, chain)
    /\ isRefreshing = FALSE
    /\ inFlight = 0
    /\ timers = NoTimers
    /\ bt = Idle
    /\ sp = PaymentIdle
    /\ sc = HookIdle
    /\ connection = NotConnecting
    /\ switchRequest = FALSE
    /\ queries = EmptyCache
    /\ snackbar = NoSnackbar
    /\ cv = NoConversion
    /\ mounted = TRUE
    /\ calls = NoCalls
    /\ submitted = <<>>
    /\ ap = ApproveIdle
    /\ allowance = NoAllowance
    /\ props = NoProps
    /\ storage = NoStorage
    /\ now = StartTime
    /\ rc = Mounted(NoStorage, NoProps, StartTime)

OverlapNext ==
    \/ \E i \in Invocations, params \in LocalRequests : Invoke(i, params)
    \/ \E i \in Invocations : TradeReadReturns(i, 2500000)
    \/ \E i \in Invocations : TradeReadFails(i, "TradeNotFound")
    \/ \E i \in Invocations, returned \in BOOLEAN : SimulationEnds(i, returned, 100001)
    \/ \E i \in Invocations : WriteResolves(i, "0xh1")
    \/ \E i \in Invocations : WriteRejects(i, "User rejected the request.")
    \/ \E i \in Invocations : ReceiptArrives(i, "success", <<>>, 6, "")
    \/ \E i \in Invocations : ReceiptWaitTimesOut(i)
    \/ \E i \in Invocations : CallSettled(i)
    \/ \E c \in DOMAIN timers : TimerFire(c)
    \/ RefreshSettled

OverlapSpec == OverlapInit /\ [][OverlapNext]_vars

\* approveUSDT on a wallet connected to a chain that has both contracts.
ApproveInit ==
    /\ address \in Addresses
    /\ chain \in SUPPORTED_CHAINS
    /\ env \in {e \in Envs : e.escrow = SUPPORTED_CHAINS /\ e.usdt = SUPPORTED_CHAINS}
    /\ wallet = WalletSnapshot(address, chain)
    /\ isRefreshing = FALSE
    /\ inFlight = 0
    /\ timers = NoTimers
    /\ bt = Idle
    /\ sp = PaymentIdle
    /\ sc = HookIdle
    /\ connection = NotConnecting
    /\ switchRequest = FALSE
    /\ queries = EmptyCache
    /\ snackbar = NoSnackbar
    /\ cv = NoConversion
    /\ mounted = TRUE
    /\ calls = NoCalls
    /\ submitted = <<>>
    /\ ap = ApproveIdle
    /\ allowance \in {[NoAllowance EXCEPT !.onChain = v] : v \in AllowancesOnChain}
    /\ props = NoProps
    /\ storage = NoStorage
    /\ now = StartTime
    /\ rc = Mounted(NoStorage, NoProps, StartTime)

ApproveNext ==
    \/ \E amount \in ApproveAmounts, usdtDecimals \in UsdtDecimals :
            ApproveUSDT(amount, usdtDecimals)
    \/ AllowanceReadReturns
    \/ AllowanceReadFails
    \/ \E hash \in {"0xh1"} : ApproveWriteReturns(hash)
    \/ \E raw \in ApproveWriteFailures : ApproveWriteFails(raw)
    \/ ApprovalConfirmed
    \/ \E ok \in BOOLEAN : DelayedRefetch(ok)
    \/ ApproveSettled

ApproveSpec == ApproveInit /\ [][ApproveNext]_vars

(***************************************************************************)
(* Properties.  The vocabulary below is that of the specification; it is   *)
(* stated on what a call was given (bt.params), on the render it was       *)
(* called from (bt.snap) and on what it did.                               *)
(***************************************************************************)
WellFormed(a) == a.defined /\ a.head = "0x" /\ a.length = 42

Called == bt.status # "idle"
Failed == bt.status = "thrown"
NoChainCalls == bt.reads = 0 /\ bt.sims = 0 /\ bt.writes = 0
NoPaymentTransaction == bt.tx.hash = "none"
NoRefreshScheduled == bt.scheduled = 0

Disconnected == bt.snap.address = NoAddress
WrongNetwork == bt.snap.chain # TARGET_CHAIN
Unresolvable == bt.snap.chain \notin env.escrow \/ bt.snap.chain \notin env.usdt
PreconditionsHold == ~Disconnected /\ ~WrongNetwork /\ ~Unresolvable

SupportedDestination(selector) ==
    selector.num /\ selector.val \in {CCIP_CHAIN_SELECTORS(c) : c \in SUPPORTED_CHAINS}

\* The error kind a user-facing message stands for; "none" for a text that is
\* no message of the taxonomy.
Kind(message) ==
    CASE message = "Insufficient funds for cross-chain fees" -> "InsufficientCrossChainFee"
      [] message = "Cross-chain purchases not supported from this network" -> "CrossChainUnsupported"
      [] message = "Insufficient USDT balance for this purchase" -> "InsufficientBalance"
      [] message = "USDT allowance insufficient. Please approve the amount first" -> "InsufficientAllowance"
      [] message = "Invalid trade ID. This product may no longer be available" -> "InvalidTrade"
      [] message = "Requested quantity exceeds available stock" -> "InsufficientQuantity"
      [] message = "Invalid logistics provider selected" -> "InvalidLogisticsProvider"
      [] message = "Cannot purchase your own product" -> "SelfPurchase"
      [] message = "Transaction was rejected by user" -> "UserRejected"
      [] message = "Network error. Please check your connection and try again" -> "NetworkError"
      [] message = "Transaction failed due to gas issues. Please try again" -> "GasFailure"
      [] message = "Purchase failed. Please try again." -> "Unknown"
      [] message = "Cross-chain purchase failed. Please try again." -> "Unknown"
      [] message = "Wallet not connected" -> "walletNotConnected"
      [] message = "Please switch to the correct network first" -> "wrongNetwork"
      [] message = "Contracts not available on this network" -> "contractsUnavailable"
      [] OTHER -> "none"

\* C1: while one set of balance and allowance reads is in flight, no further
\* refreshBalances call (interval, delayed post-purchase timer, user) starts
\* another one: at most one set of reads is in flight at any time.
C1_OneSetOfReadsInFlight == inFlight <= 1

\* C2: a buyTrade called while disconnected, on the wrong network, with no
\* resolvable escrow or token contract, or with a malformed logistics-provider
\* address fails having issued no chain read, simulate or write and having
\* scheduled no balance refresh, and no step of buyTrade changes the wallet
\* snapshot.
C2_Rejected ==
    /\ Called
    /\ \/ Disconnected
       \/ WrongNetwork
       \/ Unresolvable
       \/ ~WellFormed(bt.params.logisticsProvider)

C2_RejectedWithoutEffects ==
    /\ [](C2_Rejected =>
            Failed /\ NoChainCalls /\ NoRefreshScheduled /\ NoPaymentTransaction)
    /\ [][bt' # bt => wallet' = wallet /\ (C2_Rejected' => timers' = timers)]_vars

C2_Witness ==
    /\ Failed /\ PreconditionsHold
    /\ bt.params.quantity.num
    /\ bt.params.logisticsProvider = AddrStr("0x", 41)
    /\ bt.failedAt = "validate"

\* C3: a cross-chain buyTrade whose destination contract is malformed, or whose
\* destination chain is not supported, is rejected before any chain call: it
\* fails with no trade read, no fee estimate, no simulate and no write.
C3_CrossChainRejectedBeforeCalls ==
    ( /\ Called /\ PreconditionsHold
      /\ bt.params.quantity.num
      /\ WellFormed(bt.params.logisticsProvider)
      /\ bt.params.crossChain.present
      /\ \/ ~WellFormed(bt.params.crossChain.destinationContract)
         \/ ~SupportedDestination(bt.params.crossChain.destinationChainSelector) )
    => Failed /\ NoChainCalls

C5_MalformedLogisticsKind ==
    ( /\ Called /\ PreconditionsHold
      /\ bt.params.tradeId.num /\ bt.params.quantity.num
      /\ ~WellFormed(bt.params.logisticsProvider) )
    => Failed /\ Kind(bt.error) = "InvalidLogisticsProvider" /\ NoChainCalls

\* C6: the two token amounts passed to simulate and to write are the unit cost
\* read from the chain in this call times the requested quantity, in integers
\* of the smallest unit, and write receives the arguments simulate received.
C6_AmountIsUnitCostTimesQuantity ==
    LET expected == bt.productCost * bt.params.quantity.val
        at == IF isLocalPurchase(bt.params) THEN 5 ELSE 7
    IN /\ bt.sim.functionName # "none" =>
            bt.sim.args[at] = expected /\ bt.sim.args[at + 1] = expected
       /\ bt.write.functionName # "none" =>
            /\ bt.write.functionName = bt.sim.functionName
            /\ bt.write.args = bt.sim.args

C6_Witness ==
    /\ bt.pc = "wait"
    /\ bt.productCost = 2500000 /\ bt.params.quantity.val = MaxQuantity
    /\ bt.write.args[5] = 2500000 * MaxQuantity

\* C7: the gas limit of the write is floor(estimate * 120 / 100) on the
\* same-chain path and floor(estimate * 130 / 100) on the cross-chain path when
\* simulation yields an estimate, and the path's fixed fallback (800000
\* same-chain, twice that cross-chain) when simulation throws or yields none;
\* whatever the simulation does, the call goes on to the write.
C7_GasLimitOfWrite ==
    /\ [](bt.write.functionName # "none" =>
            LET local == isLocalPurchase(bt.params)
            IN bt.write.gas =
                 IF bt.simulated = "returned" /\ bt.requestGas # 0
                 THEN (bt.requestGas * (IF local THEN 120 ELSE 130)) \div 100
                 ELSE IF local THEN 800000 ELSE 1600000)
    /\ [][bt.pc = "simulate" /\ bt' # bt =>
            bt'.pc = "write" /\ bt'.status = "running" /\ bt'.writes = bt.writes + 1]_vars

C7_Witness ==
    /\ bt.status = "returned"
    /\ bt.simulated = "threw"
    /\ isLocalPurchase(bt.params)
    /\ bt.write.gas = 800000
    /\ bt.tx.hash = "0xh1"

\* C8 (as stated): on the cross-chain path the fee, estimated or default, is
\* the value attached to the simulation and to the write, for every request.
C8_FeeAttachedForEveryRequest ==
    (~isLocalPurchase(bt.params) /\ bt.write.functionName # "none")
    => bt.sim.value = bt.fee /\ bt.write.value = bt.fee

\* C8: on the cross-chain path the fee is the estimated fee, or the default
\* fee (0.01 native token, 10 in units of 10^15 wei) when estimation fails; the
\* simulation and the write carry the same value: that fee when the request
\* pays fees in the native token (payFeesIn 1, the default), zero when it pays
\* them in the fee token (payFeesIn 0).
C8_FeeAttachedWhenPaidInNative ==
    (~isLocalPurchase(bt.params) /\ bt.sim.functionName # "none") =>
        LET native == bt.params.crossChain.payFeesIn \in {"undefined", "1"}
            value == IF native THEN bt.fee ELSE 0
        IN /\ bt.feeStatus \in {"estimated", "default"}
           /\ bt.feeStatus = "default" => bt.fee = 10
           /\ bt.feeStatus = "estimated" => bt.fee \in FeeEstimates
           /\ bt.sim.value = value
           /\ bt.write.functionName # "none" => bt.write.value = value

C8_Witness ==
    /\ bt.pc = "wait"
    /\ ~isLocalPurchase(bt.params)
    /\ bt.feeStatus = "default"
    /\ bt.params.crossChain.payFeesIn = "undefined"
    /\ bt.write.value = 10

\* C9: a buyTrade whose receipt wait runs into its timeout fails with the
\* NetworkError kind, returns no PaymentTransaction and schedules no refresh.
C9_TimeoutIsNetworkError ==
    (Failed /\ bt.failedAt = "wait" /\ bt.raw = TimeoutMessage)
    => Kind(bt.error) = "NetworkError" /\ NoPaymentTransaction /\ NoRefreshScheduled

\* C10: a buyTrade whose transaction has a receipt of reverted status fails
\* with a message of the taxonomy, returns no PaymentTransaction and schedules
\* no balance refresh.
C10_RevertFailsClassified ==
    bt.receiptStatus = "reverted" =>
        /\ Failed
        /\ Kind(bt.error) # "none"
        /\ NoPaymentTransaction
        /\ NoRefreshScheduled

C10_Witness ==
    /\ bt.receiptStatus = "reverted"
    /\ Failed /\ bt.failedAt = "wait"
    /\ bt.writes = 1

\* C11: every PaymentTransaction record the orchestrator has produced, by
\* buyTrade on either path or by sendPayment, has status pending.
C11_RecordsArePending ==
    /\ bt.tx.hash # "none" => bt.tx.status = "pending"
    /\ sp.tx.hash # "none" => sp.tx.status = "pending"

C11_Witness ==
    /\ bt.status = "returned"
    /\ bt.tx.crossChain
    /\ bt.receiptStatus = "success"
    /\ bt.tx.status = "pending"

\* C12: a purchase operation reports success only after its write has returned
\* a hash and a receipt for that hash has been obtained: buyTrade on either
\* path, and buyCrossChainTrade of the hook.
C12_SuccessOnlyAfterReceipt ==
    /\ bt.status = "returned" =>
            bt.writes = 1 /\ bt.hash # "" /\ bt.receiptStatus = "success"
    /\ (sc.op = "buyCrossChainTrade" /\ sc.status = "returned" /\ sc.result.success) =>
            sc.writes = 1 /\ sc.result.hash # "" /\ sc.receipt # "none"

\* C13: a buyTrade that has obtained a receipt returns its record whatever the
\* logs hold: purchaseId is that of the first log that decodes to a
\* PurchaseCreated event, messageId (cross-chain only) that of the first log
\* that decodes to a MessageSent event, logs that fail to decode count for
\* nothing, and a field whose event is absent is undefined.
C13_FirstDecodable(name) ==
    LET hits == {i \in 1..Len(bt.logs) :
                    bt.logs[i].decodes /\ bt.logs[i].eventName = name}
    IN IF hits = {} THEN 0
       ELSE CHOOSE i \in hits : \A j \in hits : i <= j

C13_FieldsFromLogs ==
    bt.receiptStatus = "success" =>
        LET p == C13_FirstDecodable("PurchaseCreated")
            m == C13_FirstDecodable("MessageSent")
        IN /\ bt.status = "returned" /\ bt.tx.hash = bt.hash
           /\ IF p = 0 THEN bt.tx.purchaseId = Undefined
              ELSE bt.tx.purchaseId = [num |-> TRUE, val |-> bt.logs[p].id]
           /\ IF m = 0 \/ isLocalPurchase(bt.params) THEN bt.tx.messageId = Undefined
              ELSE bt.tx.messageId = [bytes32 |-> bt.logs[m].id]

C13_Witness ==
    /\ bt.status = "returned"
    /\ ~isLocalPurchase(bt.params)
    /\ Len(bt.logs) = 5 /\ ~bt.logs[1].decodes
    /\ bt.tx.purchaseId = [num |-> TRUE, val |-> 5]
    /\ bt.tx.messageId = [bytes32 |-> 9]

\* C14: a buyTrade that returns has scheduled exactly one delayed refresh, after
\* 2000 ms on the same-chain path and 5000 ms on the cross-chain path, and
\* returns with that refresh still pending (the step that returns starts no
\* reads); a buyTrade that fails has scheduled none.
C14_OneDelayedRefresh ==
    /\ [](/\ bt.status = "returned" =>
                /\ bt.scheduled = 1
                /\ bt.delay = IF bt.params.crossChain.present THEN 5000 ELSE 2000
          /\ bt.status \in {"running", "thrown"} => bt.scheduled = 0)
    /\ [][(bt.status = "running" /\ bt'.status = "returned") =>
            /\ timers'[bt.snap.refresh] = timers[bt.snap.refresh] + 1
            /\ inFlight' = inFlight /\ isRefreshing' = isRefreshing]_vars

C14_Witness ==
    /\ bt.status = "returned"
    /\ bt.params.crossChain.present
    /\ bt.delay = 5000
    /\ PendingTimers = 1

\* C15: the kind of a purchase that fails inside the classified block is that
\* of the first entry of the matching table, in its order, one of whose phrases
\* occurs in the message caught, and Unknown when none does; so a message with
\* the phrases of two entries gets the kind of the earlier one.
C15_Table ==
    << [phrases |-> {"InsufficientFeeTokenAmount"}, kind |-> "InsufficientCrossChainFee"],
       [phrases |-> {"SourceChainNotAllowlisted"}, kind |-> "CrossChainUnsupported"],
       [phrases |-> {"InsufficientTokenBalance"}, kind |-> "InsufficientBalance"],
       [phrases |-> {"InsufficientTokenAllowance"}, kind |-> "InsufficientAllowance"],
       [phrases |-> {"InvalidTradeId", "TradeNotFound"}, kind |-> "InvalidTrade"],
       [phrases |-> {"InsufficientQuantity"}, kind |-> "InsufficientQuantity"],
       [phrases |-> {"InvalidLogisticsProvider"}, kind |-> "InvalidLogisticsProvider"],
       [phrases |-> {"BuyerIsSeller"}, kind |-> "SelfPurchase"],
       [phrases |-> {"User rejected"}, kind |-> "UserRejected"],
       [phrases |-> {"gas"}, kind |-> "GasFailure"] >>

C15_Matches(raw) ==
    {i \in 1..Len(C15_Table) : \E phrase \in C15_Table[i].phrases : Includes(raw, phrase)}

C15_FirstMatchingEntry ==
    (Failed /\ bt.failedAt \notin {"", "precondition"}) =>
        LET hits == C15_Matches(bt.raw)
        IN Kind(bt.error) =
             IF hits = {} THEN "Unknown"
             ELSE C15_Table[CHOOSE i \in hits : \A j \in hits : i <= j].kind

C15_Witness ==
    /\ Failed /\ bt.failedAt = "write"
    /\ Cardinality(C15_Matches(bt.raw)) = 2
    /\ Kind(bt.error) = "SelfPurchase"

\* C16: confirmDelivery, cancelPurchase and raiseDispute never throw; whenever
\* the wallet is not connected, the switch to the target network was not made,
\* the escrow is not configured, the purchase id is malformed or the write is
\* rejected, the result has success = false and a message; every result with
\* success = true carries the transaction hash.
C16_Failure ==
    \/ ~sc.snap.wallet.isConnected
    \/ ~sc.snap.isCorrectNetwork /\ sc.submittedOn # TARGET_CHAIN
    \/ sc.snap.wallet.chainId \notin env.escrow
    \/ ~sc.args.purchaseId.num
    \/ sc.writeOutcome = "rejected"

C16_FailuresAreResults ==
    (sc.op \in PurchaseOps /\ sc.pc = "done") =>
        /\ sc.status = "returned"
        /\ C16_Failure => ~sc.result.success /\ sc.result.message # ""
        /\ sc.result.success => sc.result.hash # ""

(***************************************************************************)
(* Rate cache: the vocabulary of the statements below.                     *)
(***************************************************************************)
\* The chain the hook is rendered for, and that chain's persisted entry.
CurrentChain == getEffectiveChainId(props)
EntryOf(chainId) == storage[<<"currency_rates_v2", chainId>>]
\* A refresh ends in this step, by a successful attempt or by the fallback.
Succeeds(f) == \E response \in PriceResponses : AttemptSucceeds(f, response)
FallsBack(f) == \E response \in PriceResponses : AllAttemptsFailed(f, response)

\* C17: a refresh started for one chain that ends, by success or by fallback,
\* after the switch to another chain is discarded: it replaces neither the
\* rate record in use nor the persisted entry of the chain switched to.
C17_LateRefreshDiscarded ==
    [][\A f \in Fetches :
         ((Succeeds(f) \/ FallsBack(f)) /\ f.effectiveChainId # CurrentChain)
            => /\ rc'.rates = rc.rates
               /\ EntryOf(CurrentChain)' = EntryOf(CurrentChain)]_vars

\* C18: every persisted rate entry stored under the key of a chain carries
\* that chain's id.
C18_EntryBelongsToItsKey ==
    \A key \in DOMAIN storage :
        storage[key] # NoEntry => key = <<"currency_rates_v2", storage[key].chainId>>

C18_Witness ==
    /\ CurrentChain = AVALANCHE_FUJI
    /\ EntryOf(AVALANCHE_FUJI) # NoEntry
    /\ EntryOf(BASE_SEPOLIA) # NoEntry
    /\ EntryOf(AVALANCHE_FUJI).lastUpdated < EntryOf(BASE_SEPOLIA).lastUpdated

\* C19: whenever the hook is told of a chain the wallet is connected to, the
\* rate record that convert and format use carries that chain's id.
C19_RatesOfCurrentChain ==
    (props.isConnected /\ props.chainId # NoChain) => rc.rates.chainId = props.chainId

\* C20: when every attempt of a refresh for the chain in use has failed, the
\* rates served are the persisted entry of that chain if there is one, however
\* old, and otherwise the default record of that chain; and a chain with
\* neither a persisted nor a fetched rate is served its default record.
C20_FallbackAfterFailure ==
    [][\A f \in Fetches :
         (FallsBack(f) /\ f.effectiveChainId = CurrentChain)
            => rc'.rates =
                 IF EntryOf(CurrentChain) # NoEntry
                 THEN EntryOf(CurrentChain)
                 ELSE DefaultRecord(CurrentChain, CHAIN_NATIVE_TOKENS(CurrentChain), now)]_vars

C20_DefaultWithoutRecord ==
    EntryOf(CurrentChain) = NoEntry =>
        \E lastUpdated \in {0} \cup (StartTime..now) :
            rc.rates = DefaultRecord(CurrentChain, CHAIN_NATIVE_TOKENS(CurrentChain),
                                     lastUpdated)

C20_FallbackOrder == []C20_DefaultWithoutRecord /\ C20_FallbackAfterFailure

\* C21: a refresh never raises: when its last attempt fails, for a network,
\* an HTTP-status or a response-shape failure and whether or not the persisted
\* value parses, the refresh ends with the error flag set and the loading flag
\* cleared, unless the render it causes starts the next refresh at once; a
\* refresh that succeeds leaves the error flag cleared.
StartsNext == BagCardinality(rc'.fetches) = BagCardinality(rc.fetches)

C21_RefreshEndsInFlags ==
    [][\A f \in Fetches :
         /\ FallsBack(f) => \/ rc'.error # "null" /\ ~rc'.loading
                            \/ StartsNext
         /\ Succeeds(f) => /\ rc'.error = "null"
                           /\ ~rc'.loading \/ StartsNext
         /\ (FallsBack(f) \/ Succeeds(f)) =>
                BagCardinality(rc'.fetches) \in
                    {BagCardinality(rc.fetches) - 1, BagCardinality(rc.fetches)}]_vars

C21_Witness ==
    /\ rc.error = "HTTP 429: Too Many Requests"
    /\ ~rc.loading
    /\ EntryOf(CurrentChain) = Unparseable
    /\ rc.rates = DefaultRecord(CurrentChain, CHAIN_NATIVE_TOKENS(CurrentChain), now)

\* C22: a refresh that is not forced, requested while the record in memory
\* belongs to the chain in use and is younger than 5 minutes, starts no request
\* and leaves rates, loading flag, error flag and persisted storage unchanged.
FreshInMemory ==
    /\ rc.rates.chainId = CurrentChain
    /\ rc.rates.lastUpdated # 0
    /\ now - rc.rates.lastUpdated < RATE_CACHE_DURATION

C22_FreshRefreshIsNoOp ==
    [][(IntervalFires /\ FreshInMemory) => rc' = rc /\ storage' = storage]_vars

C22_Witness ==
    /\ FreshInMemory
    /\ ~isUnsupportedNetwork(props)
    /\ ~rc.loading
    /\ rc.rates = EntryOf(CurrentChain)
    /\ rc.fetches = EmptyBag
    /\ now > StartTime

\* C23: at start-up the persisted record of the chain is served only if it is
\* younger than 30 minutes, and a refresh is started whenever the record served
\* is older than 5 minutes; a persisted record of 30 minutes or more is served
\* only once a refresh has been attempted, the default record being shown until
\* then.
Age(record) == now - record.lastUpdated

C23_AtStartUp ==
    LET entry == EntryOf(CurrentChain)
    IN  IF entry = NoEntry
        THEN rc.rates = DefaultRecord(CurrentChain, CHAIN_NATIVE_TOKENS(CurrentChain), 0)
        ELSE /\ Age(entry) < STALE_CACHE_DURATION => rc.rates = entry
             /\ Age(entry) >= STALE_CACHE_DURATION =>
                    /\ rc.rates = DefaultRecord(CurrentChain,
                                                CHAIN_NATIVE_TOKENS(CurrentChain), 0)
                    /\ rc.fetches # EmptyBag
             /\ Age(entry) > RATE_CACHE_DURATION => rc.fetches # EmptyBag
             /\ Age(entry) < RATE_CACHE_DURATION => rc.fetches = EmptyBag

C23_ExpiredServedAfterAttempt ==
    LET entry == EntryOf(rc.rates.chainId)
    IN  (entry # NoEntry /\ rc.rates = entry /\ Age(entry) >= STALE_CACHE_DURATION)
            => rc.error # "null" \/ rc.fetches # EmptyBag

\* A state at start-up: the hook's state is what its first render leaves.
AtStartUp == rc = Mounted(storage, props, now)

C23_StalenessWindows ==
    /\ AtStartUp => C23_AtStartUp
    /\ C23_ExpiredServedAfterAttempt

C23_Witness ==
    /\ EntryOf(CurrentChain) # NoEntry
    /\ rc.rates = EntryOf(CurrentChain)
    /\ Age(rc.rates) >= STALE_CACHE_DURATION
    /\ rc.error # "null"
    /\ rc.fetches = EmptyBag

C25_AddressAndChainTogether ==
    (wallet.address # NoAddress) <=> (wallet.chainId # NoChain)

(***************************************************************************)
(* C30: the rate cache issues a request only while the wallet is connected *)
(* on a network it supports: neither the first render, the chain-change    *)
(* effect, the periodic refresh nor a retry sends a request while the      *)
(* wallet is disconnected or on an unsupported network.                    *)
(***************************************************************************)
ConnectedOnSupportedChain(p) == p.isConnected /\ isSupportedChain(p.chainId)

\* A step that sends a request: a refresh starts, or a refresh makes its next attempt.
SendsRequest == ~(rc'.fetches \sqsubseteq rc.fetches)

C30_RequestsOnlyWhenConnected ==
    /\ rc.fetches # EmptyBag => ConnectedOnSupportedChain(props)
    /\ [][SendsRequest => ConnectedOnSupportedChain(props')]_vars

(***************************************************************************)
(* Vocabulary of the wallet session claims: the state of the session as    *)
(* the snapshot shows it.  isConnecting is also true while the first token *)
(* balance read of a connected wallet is in flight, so a snapshot is       *)
(* Connecting only when it is not connected.                               *)
(***************************************************************************)
SessionConnected == wallet.isConnected
SessionConnecting == ~wallet.isConnected /\ wallet.isConnecting
SessionDisconnected == ~wallet.isConnected /\ ~wallet.isConnecting

(***************************************************************************)
(* C26: the snapshot's token balance is populated only if an address is    *)
(* present, a token contract is resolved for the snapshot's chain and the  *)
(* wallet is on the target network, and then it is the balance of that     *)
(* address on that chain: a balance read on the target network is not      *)
(* exposed after a switch to a wrong network or to another address.        *)
(***************************************************************************)
C26_TokenBalanceOnlyOnCorrectNetwork ==
    wallet.usdtBalance # NoData =>
        /\ wallet.address # NoAddress
        /\ UsdtContractOf(wallet.address, wallet.chainId) # <<>>
        /\ wallet.chainId = TARGET_CHAIN
        /\ wallet.usdtBalance.raw.owner = wallet.address
        /\ wallet.usdtBalance.raw.chainId = wallet.chainId

\* A balance was read and exposed on the target network; the wallet is now on
\* another configured chain, where getUSDTBalance has read a balance too, and
\* the snapshot exposes neither.
C26_Witness ==
    /\ address # NoAddress
    /\ chain \in SUPPORTED_CHAINS \ {TARGET_CHAIN}
    /\ UsdtContractOf(address, chain) # <<>>
    /\ queries.usdt[<<address, TARGET_CHAIN>>].state = "success"
    /\ queries.usdt[<<address, TARGET_CHAIN>>].data.value # 0
    /\ queries.decimals[TARGET_CHAIN].state = "success"
    /\ queries.usdt[<<address, chain>>].state = "success"
    /\ queries.usdt[<<address, chain>>].data.value # 0
    /\ wallet.usdtBalance = NoData

ReportsSwitchSuccess ==
    /\ snackbar' # snackbar
    /\ snackbar' = ShowSnackbar("Switched to Avalanche Fuji", "success")

C28_SwitchFailureSurfaced ==
    /\ [][SwitchRejected /\ address # NoAddress
            => /\ SessionConnected'
               /\ wallet'.address = wallet.address
               /\ wallet'.chainId = wallet.chainId
               /\ snackbar'.severity = "error"]_vars
    /\ [][ReportsSwitchSuccess => chain' = TARGET_CHAIN]_vars

(***************************************************************************)
(* C29: from any state of the session, disconnectWallet ends in            *)
(* Disconnected, and the resulting snapshot has no address, no chain id,   *)
(* no native balance and no token balance.                                 *)
(***************************************************************************)
C29_DisconnectEndsDisconnected ==
    [][disconnect => /\ SessionDisconnected'
                     /\ wallet'.address = NoAddress
                     /\ wallet'.chainId = NoChain
                     /\ wallet'.balance = NoData
                     /\ wallet'.usdtBalance = NoData]_vars

(***************************************************************************)
(* C31: no set of balance and allowance reads is started for the Balance   *)
(* Tracker while the wallet is disconnected or on the wrong network, also  *)
(* not by a refresh scheduled earlier (the interval, the delayed refresh   *)
(* after a purchase or a payment) that fires after the wallet has          *)
(* disconnected or changed network.                                        *)
(***************************************************************************)
C31_ReadsOnlyOnCorrectNetwork ==
    [][inFlight' > inFlight => isConnected' /\ isCorrectNetwork']_vars

(***************************************************************************)
(* C32: convertPrice returns the amount it was given, and returns a number *)
(* rather than raising, when the source and the target currency are the    *)
(* same, when the amount is zero and when the amount is not finite.        *)
(***************************************************************************)
DegenerateConversion ==
    cv.from = cv.to \/ cv.price = Zero \/ ~isFinite(cv.price)

C35_LensesOfOneReading ==
    wallet.usdtBalance # NoData =>
        LET amount == Fraction(wallet.usdtBalance.raw.value, 10^wallet.usdtBalance.decimals)
        IN  /\ wallet.usdtBalance.usdt = [number |-> amount, unit |-> "USDT"]
            /\ wallet.usdtBalance.celo =
                 formatPrice(rc.rates, convertPrice(rc.rates, amount, "USDT", "NATIVE"),
                             "NATIVE")
            /\ wallet.usdtBalance.fiat =
                 formatPrice(rc.rates, convertPrice(rc.rates, amount, "USDT", "FIAT"), "FIAT")

(***************************************************************************)
(* C34: one rate refresh makes at most three attempts (the first and at    *)
(* most MAX_RETRIES retries), waits 1 s before the first retry and 2 s     *)
(* before the second, makes no further attempt after a success, falls back *)
(* only when the third attempt has failed, and so always ends.             *)
(***************************************************************************)
Retries(f) == \E response \in PriceResponses : AttemptFailsRetry(f, response)

C34_AtMostThreeAttempts ==
    /\ [](\A f \in BagToSet(rc.fetches) :
            /\ f.retryCount \in 0..MAX_RETRIES
            /\ f.delay = RETRY_DELAY * f.retryCount)
    /\ [][\A f \in Fetches :
            /\ Retries(f) => f.retryCount < MAX_RETRIES
            /\ Succeeds(f) => BagCardinality(rc'.fetches) < BagCardinality(rc.fetches)
            /\ FallsBack(f) => f.retryCount = MAX_RETRIES]_vars
    /\ <>(rc.fetches = EmptyBag)

\* A refresh has ended in the fallback after its third attempt.
C34_Witness ==
    /\ rc.fetches = EmptyBag
    /\ rc.error # "null"
    /\ ~rc.loading

(***************************************************************************)
(* C39: a buyTrade whose trade read fails with TradeNotFound ends with the *)
(* invalid-trade kind of error, the kind a purchase call failing with      *)
(* InvalidTradeId or TradeNotFound gets, and not with the default kind.    *)
(***************************************************************************)
TradeReadNotFound ==
    /\ bt.status = "thrown"
    /\ bt.failedAt = "getTrade"
    /\ bt.raw = GetTradeError("TradeNotFound")

C39_TradeNotFoundIsInvalidTrade ==
    TradeReadNotFound => Kind(bt.error) = "InvalidTrade"

(***************************************************************************)
(* C33: every purchase write of buyTrade comes after a read of the         *)
(* allowance issued by the same call: the reads a call has issued when it  *)
(* writes include allowance(address, escrow) on the token.                 *)
(***************************************************************************)
\* The contract reads a buyTrade call has issued so far, by function name.
ReadsIssued(b) ==
    (IF b.reads >= 1 THEN {"trades"} ELSE {}) \cup
    (IF b.reads >= 2 THEN {"getFee"} ELSE {})

C33_AllowanceReadBeforeWrite ==
    [][bt'.writes > bt.writes => "allowance" \in ReadsIssued(bt)]_vars

(***************************************************************************)
(* C38: no write is submitted while the wallet is on another network than  *)
(* the target chain: the write that sendPayment, confirmDelivery,          *)
(* confirmPurchase, cancelPurchase, raiseDispute or the cross-chain        *)
(* purchase is waiting for was submitted with the wallet on the target     *)
(* chain.                                                                  *)
(***************************************************************************)
C38_WritesOnTargetChainOnly ==
    /\ sp.pc = "write" => sp.write.chain = TARGET_CHAIN
    /\ sc.pc = "write" => sc.write.chain = TARGET_CHAIN

(***************************************************************************)
(* C36: after the teardown of the component no pending timer fires and no  *)
(* asynchronous operation in flight updates state: a refresh in flight     *)
(* starts no retry delay and writes no rates.                              *)
(***************************************************************************)
C36_NothingAfterTeardown ==
    [][~mounted => /\ storage' = storage
                   /\ \A f \in Fetches : ~Retries(f)]_vars

(***************************************************************************)
(* C37: buyTrade keeps no record of the requests it has submitted: a call  *)
(* with a well-formed request on the target chain goes to its trade read   *)
(* whatever other calls are in flight or have written; a call that has     *)
(* reached its write has made its own read, simulation and write; and      *)
(* every write of a call is one more write submitted.  Two calls with the  *)
(* same request, one after the other or overlapping, submit two writes.    *)
(***************************************************************************)
Starts(i) == calls[i].b.pc = "idle" /\ calls'[i].b.pc # "idle"

C37_OwnReadSimulationWrite ==
    \A i \in Invocations :
        calls[i].b.pc \in {"write", "wait"} =>
            /\ calls[i].b.reads = 1
            /\ calls[i].b.sims = 1
            /\ calls[i].b.writes = 1

C37_NoRecordOfIntents ==
    /\ []C37_OwnReadSimulationWrite
    /\ [][\A i \in Invocations :
            /\ Starts(i) => /\ calls'[i].b.pc = "getTrade"
                            /\ calls'[i].b.reads = 1
            /\ calls'[i].b.writes > calls[i].b.writes
                => submitted' = Append(submitted, [call |-> i, params |-> calls[i].b.params,
                                                   write |-> calls'[i].b.write])]_vars

\* Two calls with the same request, the second started while the first was
\* in flight, have each submitted the same write.
C37_Witness ==
    /\ Len(submitted) = 2
    /\ submitted[1].call # submitted[2].call
    /\ submitted[1].params = submitted[2].params
    /\ submitted[1].write.args = submitted[2].write.args
    /\ calls[submitted[2].call].overlapped
    /\ calls[submitted[2].call].b.pc = "wait"
    /\ calls[submitted[1].call].b.pc = "wait"

(***************************************************************************)
(* C40: an approve write of approveUSDT approves the maximum amount; a     *)
(* call whose re-read allowance covers the requested amount returns the    *)
(* sentinel hash 0x0 and writes nothing; and a call made after an approval *)
(* has been confirmed on chain submits no write, whatever its amount.      *)
(***************************************************************************)
CoveredOnChain(amount) ==
    amount.num /\ allowance.onChain >= amount.val * 10^TOKEN_DECIMALS

C40_NoWriteOnceApproved ==
    /\ [](ap.pc = "write" => ap.write.args[2] = maxApproval)
    /\ [][(AllowanceReadReturns /\ CoveredOnChain(ap.amount))
            => ap'.hash = "0x0" /\ ap'.writes = ap.writes]_vars
    /\ [][ap.later => ap'.writes = ap.writes]_vars

====
